---- MODULE Spec2Model ----
(***************************************************************************)
(* Model of the message-aggregation hub (BIZKON/Vika_TG_Admin).            *)
(*                                                                         *)
(* The repository holds two lineages of "the hub":                         *)
(*   - the Bot-API lineage (bot/handlers/business.py, bot/handlers/        *)
(*     groups.py, core/storage.py): aiogram handlers with a dedup ledger   *)
(*     (processed_messages) and a hub_messages table;                      *)
(*   - the account lineage (aggregator.py, router.py, assistant.py,        *)
(*     storage.py): Telethon account listeners, the reply router, the      *)
(*     in-memory pending_drafts index and the message_mapping table.       *)
(*                                                                         *)
(* Every handler is an asyncio coroutine on one event loop: the code       *)
(* between two awaits runs atomically, and handlers of different updates   *)
(* interleave at their awaits.  One action of the model is one such        *)
(* atomic segment.                                                         *)
(***************************************************************************)
EXTENDS Integers, Sequences, FiniteSets, TLC

(***************************************************************************)
(* Bounds of the model.                                                    *)
(***************************************************************************)
MaxBotDeliveries == 2
MaxDeliveries == 2
MaxRoutedDeliveries == 1
MaxReplies == 2
MaxJointDeliveries == 2
MaxStoreRows == 3
MaxStoreHubId == 2
MaxStoreTime == 2
MaxDraftHubId == 2
MaxDraftPosts == 3
MaxMarkCalls == 3
MaxClassifyCalls == 2

(***************************************************************************)
(* Text.  A text is a sequence of characters; Cyrillic words of the        *)
(* configuration are written in transliteration, one token per letter.     *)
(***************************************************************************)
\* str.lower(), one character
LowerChar(c) ==
    CASE c = "O" -> "o"
      [] c = "K" -> "k"
      [] c = "N" -> "n"
      [] c = "S" -> "s"
      [] c = "H" -> "h"
      [] OTHER -> c

\* str.lower()
Lower(t) == [i \in 1..Len(t) |-> LowerChar(t[i])]

RECURSIVE LStrip(_)
LStrip(t) == IF t # <<>> /\ Head(t) = " " THEN LStrip(Tail(t)) ELSE t

RECURSIVE RStrip(_)
RStrip(t) ==
    IF t # <<>> /\ t[Len(t)] = " " THEN RStrip(SubSeq(t, 1, Len(t) - 1)) ELSE t

\* str.strip()
Strip(t) == RStrip(LStrip(t))

T_ok == <<"!", "o", "k">>
T_no == <<"!", "n", "o">>
T_spasibo == <<"s", "p", "a", "s", "i", "b", "o">>
T_plus1 == <<"+", "1">>

(***************************************************************************)
(* Bot-API lineage: configuration                                          *)
(***************************************************************************)
\* config.filters.min_group_message_length
min_group_message_length == 5

\* config.filters.noise_patterns (the entries the modelled texts can match)
noise_patterns == {T_spasibo, T_plus1}

DmChat == 10
StudentsChat == 20
OtherGroup == 30

\* get_source_for_chat: the monitored group, or none
get_source_for_chat(chat_id) ==
    IF chat_id = StudentsChat THEN "group_students" ELSE "none"

(***************************************************************************)
(* State                                                                   *)
(***************************************************************************)
VARIABLES
    \* Bot-API lineage (core/storage.py)
    processed_messages,   \* dedup ledger: set of <<source, chat_id, message_id>>
    hub_messages,         \* sequence of hub_messages rows
    bot_muted,            \* muted_chats: set of chat ids
    bot_hub,              \* posts of the bot in the hub chat, in order
    bh,                   \* handler invocations of the dispatcher
    daily_stats,          \* daily_stats rows, by date
    \* account lineage (storage.py, aggregator.py, assistant.py, router.py)
    message_mapping,      \* sequence of message_mapping rows
    agg_muted,            \* muted_chats: set of chat ids
    hub,                  \* posts in the hub chat (cards, media, drafts), in order
    pending_drafts,       \* AIAssistant.pending_drafts: hub_message_id -> draft text
    ai_enabled,           \* AIAssistant.enabled
    ai_stats,             \* KnowledgeBase ai_stats rows, in order
    learned_replies,      \* KnowledgeBase learned_replies rows, in order
    outbox,               \* messages delivered to the original chats, in order
    mark_clock,           \* datetime('now') of the store, as a logical clock
    mark_calls,           \* the Database.mark_replied calls made, in order, with the rows each UPDATE matched
    lh,                   \* AccountListener._on_new_message invocations
    dt,                   \* _generate_ai_draft tasks, by hub_message_id
    rh                    \* ReplyRouter._on_hub_reply invocations

botVars == <<processed_messages, hub_messages, bot_muted, bot_hub, bh, daily_stats>>

ingestVars == <<message_mapping, agg_muted, hub, pending_drafts, lh, dt>>

routerVars == <<ai_enabled, ai_stats, learned_replies, outbox, mark_clock, mark_calls, rh>>

aggVars == <<ingestVars, routerVars>>

vars == <<botVars, aggVars>>

(***************************************************************************)
(* Bot-API lineage: inbound updates.  An update is delivered at least      *)
(* once; a redelivery carries the same content.                            *)
(***************************************************************************)
T_hello == <<"h", "e", "l", "l", "o">>
T_Spasibo_sp == <<"S", "p", "a", "s", "i", "b", "o", " ">>

\* ids as the Bot API delivers them: from_user.id is an int,
\* business_connection_id a str
IntId(digits) == [type |-> "int", v |-> digits]
StrId(chars) == [type |-> "str", v |-> chars]
NoId == [type |-> "none", v |-> ""]

\* the owner of the business connection and a customer writing to the owner
OwnerId == IntId("900")
CustomerId == IntId("100")
ConnectionId == StrId("conn900")

BotEvents ==
    { [kind |-> "business", chat |-> DmChat, message_id |-> 1,
       text |-> T_hello, has_media |-> FALSE, from_bot |-> FALSE,
       from_user_id |-> CustomerId, business_connection_id |-> ConnectionId,
       from_owner |-> FALSE],
      [kind |-> "business", chat |-> DmChat, message_id |-> 2,
       text |-> <<>>, has_media |-> TRUE, from_bot |-> FALSE,
       from_user_id |-> CustomerId, business_connection_id |-> ConnectionId,
       from_owner |-> FALSE],
      [kind |-> "business", chat |-> DmChat, message_id |-> 3,
       text |-> T_hello, has_media |-> FALSE, from_bot |-> FALSE,
       from_user_id |-> OwnerId, business_connection_id |-> ConnectionId,
       from_owner |-> TRUE],
      [kind |-> "group", chat |-> StudentsChat, message_id |-> 1,
       text |-> T_hello, has_media |-> FALSE, from_bot |-> FALSE,
       from_user_id |-> CustomerId, business_connection_id |-> NoId,
       from_owner |-> FALSE],
      [kind |-> "group", chat |-> StudentsChat, message_id |-> 2,
       text |-> T_Spasibo_sp, has_media |-> FALSE, from_bot |-> FALSE,
       from_user_id |-> CustomerId, business_connection_id |-> NoId,
       from_owner |-> FALSE],
      [kind |-> "group", chat |-> StudentsChat, message_id |-> 3,
       text |-> T_plus1, has_media |-> FALSE, from_bot |-> FALSE,
       from_user_id |-> CustomerId, business_connection_id |-> NoId,
       from_owner |-> FALSE],
      [kind |-> "group", chat |-> StudentsChat, message_id |-> 4,
       text |-> T_hello, has_media |-> FALSE, from_bot |-> TRUE,
       from_user_id |-> CustomerId, business_connection_id |-> NoId,
       from_owner |-> FALSE],
      [kind |-> "group", chat |-> OtherGroup, message_id |-> 1,
       text |-> T_hello, has_media |-> FALSE, from_bot |-> FALSE,
       from_user_id |-> CustomerId, business_connection_id |-> NoId,
       from_owner |-> FALSE] }

NoBotEvent ==
    [kind |-> "none", chat |-> 0, message_id |-> 0,
     text |-> <<>>, has_media |-> FALSE, from_bot |-> FALSE,
     from_user_id |-> NoId, business_connection_id |-> NoId,
     from_owner |-> FALSE]

BotSlots == 1..MaxBotDeliveries
BotChats == {DmChat, StudentsChat}

\* the dedup key the handler uses for an update
BotSource(ev) ==
    IF ev.kind = "business" THEN "business_dm" ELSE get_source_for_chat(ev.chat)

BotKey(ev) == <<BotSource(ev), ev.chat, ev.message_id>>

(***************************************************************************)
(* core/storage.py                                                         *)
(***************************************************************************)
is_duplicate_never(source, chat_id, message_id) == FALSE

\* Database.is_duplicate: SELECT 1 FROM processed_messages WHERE key
is_duplicate(source, chat_id, message_id) ==
    <<source, chat_id, message_id>> \in processed_messages

mark_processed_lost(ledger, source, chat_id, message_id) == ledger

\* Database.mark_processed: INSERT OR IGNORE INTO processed_messages
mark_processed(ledger, source, chat_id, message_id) ==
    ledger \cup {<<source, chat_id, message_id>>}

\* Database.is_muted
bot_is_muted(chat_id) == chat_id \in bot_muted

\* Database.save_hub_message: INSERT INTO hub_messages (no uniqueness constraint)
save_hub_message(table, hub_message_id, source, ev) ==
    Append(table,
           [id |-> Len(table) + 1,
            hub_message_id |-> hub_message_id,
            source |-> source,
            source_message_id |-> ev.message_id,
            source_chat_id |-> ev.chat,
            replied |-> FALSE])

\* datetime.now().strftime("%Y-%m-%d") during the run
Today == 1

\* a daily_stats row with the column defaults
NoStats ==
    [total_messages |-> 0, business_dm |-> 0, group_students |-> 0,
     group_curators |-> 0, getcourse |-> 0]

increment_stat_replace(table, source, date) ==
    [d \in DOMAIN table \cup {date} |->
        IF d = date
        THEN [NoStats EXCEPT !.total_messages = 1, ![source] = 1]
        ELSE table[d]]

\* Database.increment_stat: INSERT ... ON CONFLICT(date) DO UPDATE SET
\* total_messages = total_messages + 1, column = column + 1, one statement
increment_stat(table, source, date) ==
    IF source \notin {"business_dm", "group_students", "group_curators", "getcourse"}
    THEN table
    ELSE [d \in DOMAIN table \cup {date} |->
            IF d # date THEN table[d]
            ELSE IF date \in DOMAIN table
            THEN [table[date] EXCEPT !.total_messages = @ + 1, ![source] = @ + 1]
            ELSE [NoStats EXCEPT !.total_messages = 1, ![source] = 1]]

(***************************************************************************)
(* bot/handlers/business.py, bot/handlers/groups.py                        *)
(***************************************************************************)
\* business.py:83 compares from_user.id (an int) with business_connection_id
\* (a str): the comparison is false for every update
IsOutgoing(ev) == ev.from_user_id = ev.business_connection_id

\* groups.py:59-67: the length filter and the noise filter
GroupFiltered(text) ==
    \/ Len(text) < min_group_message_length
    \/ \E noise \in noise_patterns : Strip(Lower(text)) = Lower(noise)

\* the verdict of the synchronous prefix of a handler, up to the dedup gate
BotGate(ev) ==
    IF ev.kind = "business"
    THEN IF IsOutgoing(ev) THEN "outgoing"
         ELSE IF bot_is_muted(ev.chat) THEN "muted"
         ELSE IF is_duplicate("business_dm", ev.chat, ev.message_id) THEN "duplicate"
         ELSE "pass"
    ELSE IF get_source_for_chat(ev.chat) = "none" THEN "unmonitored"
         ELSE IF bot_is_muted(ev.chat) THEN "muted"
         ELSE IF ev.from_bot THEN "bot"
         ELSE IF GroupFiltered(ev.text) THEN "filtered"
         ELSE IF is_duplicate(get_source_for_chat(ev.chat), ev.chat, ev.message_id)
              THEN "duplicate"
         ELSE "pass"

\* a handler invocation: its position, its update, the hub card it posted,
\* how it ended, the invocations that had ended when it started, and whether
\* its chat was muted when it started
BotIdle == [pc |-> "idle", ev |-> NoBotEvent, hub |-> 0, outcome |-> "none",
            after |-> {}, muted |-> FALSE]

BotInit ==
    /\ processed_messages = {}
    /\ hub_messages = <<>>
    /\ bot_muted = {}
    /\ bot_hub = <<>>
    /\ bh = [p \in BotSlots |-> BotIdle]
    /\ daily_stats = [d \in {} |-> NoStats]

\* on_business_message / on_group_message, from the start of the handler to
\* its first await (bot.send_message): the gates and mark_processed
BotReceive(p, ev) ==
    /\ bh[p].pc = "idle"
    /\ \A q \in BotSlots : q < p => bh[q].pc # "idle"
    /\ LET verdict == BotGate(ev)
           done == {q \in BotSlots : bh[q].pc = "done"}
       IN IF verdict = "pass"
          THEN /\ processed_messages' =
                      mark_processed(processed_messages, BotSource(ev),
                                     ev.chat, ev.message_id)
               /\ bh' = [bh EXCEPT ![p] = [pc |-> "sending", ev |-> ev, hub |-> 0,
                                           outcome |-> "none", after |-> done,
                                           muted |-> ev.chat \in bot_muted]]
          ELSE /\ processed_messages' = processed_messages
               /\ bh' = [bh EXCEPT ![p] = [pc |-> "done", ev |-> ev, hub |-> 0,
                                           outcome |-> verdict, after |-> done,
                                           muted |-> ev.chat \in bot_muted]]
    /\ UNCHANGED <<hub_messages, bot_muted, bot_hub>>
    /\ UNCHANGED <<daily_stats, aggVars>>

\* bot.send_message(hub) returns: the card is posted; without media the
\* handler runs on to save_hub_message in the same segment
BotSendOk(p) ==
    /\ bh[p].pc = "sending"
    /\ LET id == Len(bot_hub) + 1
           ev == bh[p].ev
       IN /\ bot_hub' = Append(bot_hub, [kind |-> "card", key |-> BotKey(ev)])
          /\ IF ev.has_media
             THEN /\ bh' = [bh EXCEPT ![p].pc = "media", ![p].hub = id]
                  /\ hub_messages' = hub_messages
                  /\ daily_stats' = daily_stats
             ELSE /\ bh' = [bh EXCEPT ![p].pc = "done", ![p].hub = id,
                                      ![p].outcome = "saved"]
                  /\ hub_messages' =
                         save_hub_message(hub_messages, id, BotSource(ev), ev)
                  /\ daily_stats' = increment_stat(daily_stats, BotSource(ev), Today)
    /\ UNCHANGED <<processed_messages, bot_muted>>
    /\ UNCHANGED aggVars

BotSendFail_unmarks(p) ==
    /\ bh[p].pc = "sending"
    /\ bh' = [bh EXCEPT ![p].pc = "done", ![p].outcome = "send_failed"]
    /\ processed_messages' = processed_messages \ {BotKey(bh[p].ev)}
    /\ UNCHANGED <<hub_messages, bot_muted, bot_hub>>
    /\ UNCHANGED <<daily_stats, aggVars>>

\* bot.send_message(hub) raises: caught by the handler's except, logged
BotSendFail(p) ==
    /\ bh[p].pc = "sending"
    /\ bh' = [bh EXCEPT ![p].pc = "done", ![p].outcome = "send_failed"]
    /\ UNCHANGED <<processed_messages, hub_messages, bot_muted, bot_hub>>
    /\ UNCHANGED <<daily_stats, aggVars>>

\* message.forward(hub) returns or raises (caught at once), then save_hub_message
BotMedia(p, forwarded) ==
    /\ bh[p].pc = "media"
    /\ bot_hub' = IF forwarded
                  THEN Append(bot_hub, [kind |-> "media", key |-> BotKey(bh[p].ev)])
                  ELSE bot_hub
    /\ hub_messages' = save_hub_message(hub_messages, bh[p].hub,
                                        BotSource(bh[p].ev), bh[p].ev)
    /\ daily_stats' = increment_stat(daily_stats, BotSource(bh[p].ev), Today)
    /\ bh' = [bh EXCEPT ![p].pc = "done", ![p].outcome = "saved"]
    /\ UNCHANGED <<processed_messages, bot_muted>>
    /\ UNCHANGED aggVars

\* bot/handlers/commands.py: /mute <chat_id>
BotMute(c) ==
    /\ c \notin bot_muted
    /\ bot_muted' = bot_muted \cup {c}
    /\ UNCHANGED <<processed_messages, hub_messages, bot_hub, bh>>
    /\ UNCHANGED <<daily_stats, aggVars>>

\* bot/handlers/commands.py: /unmute <chat_id>
BotUnmute(c) ==
    /\ c \in bot_muted
    /\ bot_muted' = bot_muted \ {c}
    /\ UNCHANGED <<processed_messages, hub_messages, bot_hub, bh>>
    /\ UNCHANGED <<daily_stats, aggVars>>

(***************************************************************************)
(* webhooks/server.py, main.py: GetCourse webhook events                   *)
(***************************************************************************)
T_homework == <<"h", "w", " ", "1">>
T_comment == <<"c", "o", "m", "m", "e", "n", "t">>

\* the POSTs GetCourse sends: a payload has no event or message identifier,
\* so chat and message_id are None (0); a retry carries the same payload
GetCourseEvents ==
    { [kind |-> "getcourse", chat |-> 0, message_id |-> 0,
       text |-> T_homework, has_media |-> FALSE, from_bot |-> FALSE,
       from_user_id |-> CustomerId, business_connection_id |-> NoId,
       from_owner |-> FALSE],
      [kind |-> "getcourse", chat |-> 0, message_id |-> 0,
       text |-> T_comment, has_media |-> FALSE, from_bot |-> FALSE,
       from_user_id |-> CustomerId, business_connection_id |-> NoId,
       from_owner |-> FALSE] }

\* getcourse_webhook up to hub_callback's await of bot.send_message: the
\* secret is verified, the payload parsed; no mute, filter or dedup gate
GetCourseReceive(p, ev) ==
    /\ bh[p].pc = "idle"
    /\ \A q \in BotSlots : q < p => bh[q].pc # "idle"
    /\ bh' = [bh EXCEPT ![p] =
                 [pc |-> "posting", ev |-> ev, hub |-> 0, outcome |-> "none",
                  after |-> {q \in BotSlots : bh[q].pc = "done"},
                  muted |-> FALSE]]
    /\ UNCHANGED <<processed_messages, hub_messages, bot_muted, bot_hub>>
    /\ UNCHANGED <<daily_stats, aggVars>>

\* hub_callback: bot.send_message returns, save_hub_message with no
\* source_message_id and no source_chat_id
GetCourseSendOk(p) ==
    /\ bh[p].pc = "posting"
    /\ bot_hub' = Append(bot_hub, [kind |-> "card",
                                   key |-> <<"getcourse", bh[p].ev.text>>])
    /\ hub_messages' = save_hub_message(hub_messages, Len(bot_hub) + 1,
                                        "getcourse", bh[p].ev)
    /\ daily_stats' = increment_stat(daily_stats, "getcourse", Today)
    /\ bh' = [bh EXCEPT ![p].pc = "done", ![p].hub = Len(bot_hub) + 1,
                        ![p].outcome = "saved"]
    /\ UNCHANGED <<processed_messages, bot_muted>>
    /\ UNCHANGED aggVars

\* bot.send_message raises: getcourse_webhook's except answers HTTP 500
GetCourseSendFail(p) ==
    /\ bh[p].pc = "posting"
    /\ bh' = [bh EXCEPT ![p].pc = "done", ![p].outcome = "send_failed"]
    /\ UNCHANGED <<processed_messages, hub_messages, bot_muted, bot_hub>>
    /\ UNCHANGED <<daily_stats, aggVars>>

BotNext ==
    \/ \E p \in BotSlots, ev \in BotEvents : BotReceive(p, ev)
    \/ \E p \in BotSlots : BotSendOk(p)
    \/ \E p \in BotSlots : BotSendFail(p)
    \/ \E p \in BotSlots, forwarded \in BOOLEAN : BotMedia(p, forwarded)
    \/ \E c \in BotChats : BotMute(c)
    \/ \E c \in BotChats : BotUnmute(c)


(***************************************************************************)
(* Bot-API lineage: properties                                             *)
(***************************************************************************)
BotKeys == {BotKey(ev) : ev \in BotEvents}

\* hub cards posted for a key
BotCards(k) == {i \in 1..Len(bot_hub) : bot_hub[i].kind = "card" /\ bot_hub[i].key = k}

\* hub_messages rows of a key
BotRows(k) ==
    {i \in 1..Len(hub_messages) :
        <<hub_messages[i].source, hub_messages[i].source_chat_id,
          hub_messages[i].source_message_id>> = k}

\* q was delivered after p had been handled, with the same origin event
Redelivered(p, q) ==
    /\ p # q
    /\ bh[p].pc = "done" /\ bh[p].outcome = "saved"
    /\ bh[q].pc = "done" /\ p \in bh[q].after
    /\ bh[q].ev = bh[p].ev

\* C1: an origin event delivered a second time after its first delivery was
\* handled (not muted, filters passed, hub send succeeded) has, in total,
\* exactly one hub card and exactly one hub_messages row.
C1_DedupIdempotence ==
    \A p, q \in BotSlots :
        Redelivered(p, q) =>
            /\ Cardinality(BotCards(BotKey(bh[p].ev))) = 1
            /\ Cardinality(BotRows(BotKey(bh[p].ev))) = 1

C1_Witness ==
    \E p, q \in BotSlots : Redelivered(p, q) /\ bh[q].outcome = "duplicate"

\* the handler invocations that passed the dedup gate for a key
PassedGate(k) ==
    {p \in BotSlots :
        /\ bh[p].pc # "idle"
        /\ BotKey(bh[p].ev) = k
        /\ bh[p].pc \in {"sending", "media"} \/ bh[p].outcome \in {"saved", "send_failed"}}

\* C2: of the handler invocations for one key, however they interleave at
\* their awaits, at most one passes the dedup gate, so at most one hub card
\* and at most one hub_messages row exist for the key.
C2_DedupRaceClosed ==
    \A k \in BotKeys :
        /\ Cardinality(PassedGate(k)) <= 1
        /\ Cardinality(BotCards(k)) <= 1
        /\ Cardinality(BotRows(k)) <= 1

\* two invocations for one key in flight together: the second is delivered
\* while the first is suspended in its hub send
C2_Witness ==
    \E p, q \in BotSlots :
        /\ p # q
        /\ bh[p].pc \in {"sending", "media"}
        /\ bh[q].pc = "done" /\ bh[q].outcome = "duplicate"
        /\ bh[q].ev = bh[p].ev

(***************************************************************************)
(* Account lineage: configuration                                          *)
(***************************************************************************)
\* Aggregator.listeners: the accounts a listener was started for, in order
listeners == <<"work", "personal">>

\* an account of an earlier run of the process that is configured no longer
LegacyAccount == "old"

\* config.ai_min_message_length
ai_min_message_length == 10

\* config.ai_draft_for_dm_only
ai_draft_for_dm_only == FALSE

\* FilterConfig.forward_all_dm, FilterConfig.groups_questions_only
forward_all_dm == TRUE
groups_questions_only == FALSE

\* MessageFilter._noise_set
noise_set == {Strip(Lower(n)) : n \in noise_patterns}

T_question == <<"k", "a", "k", " ", "d", "e", "l", "a", "?", "?">>
T_help == <<"H", "e", "l", "p", "!">>
T_thanks == <<"t", "h", "a", "n", "k", "s">>

\* FilterConfig.urgent_keywords (the entry the modelled texts can contain)
urgent_keywords == {<<"h", "e", "l", "p">>}

\* filters.py:81: gratitude_words (the entry the modelled texts can contain)
gratitude_words == {T_thanks}
T_draft == <<"v", " ", "1", "8">>
T_draft_other == <<"v", " ", "1", "9">>

GroupChat == 1
PrivateChat == 2

\* inbound events of the account listeners; the same group message reaches
\* every account that is a member of the group
AggEvents ==
    { [account |-> "work", chat |-> GroupChat, chat_type |-> "supergroup",
       message_id |-> 1, text |-> T_question, has_media |-> FALSE,
       from_self |-> FALSE, date |-> 1],
      [account |-> "personal", chat |-> GroupChat, chat_type |-> "supergroup",
       message_id |-> 1, text |-> T_question, has_media |-> FALSE,
       from_self |-> FALSE, date |-> 1],
      [account |-> "personal", chat |-> PrivateChat, chat_type |-> "dm",
       message_id |-> 1, text |-> T_help, has_media |-> TRUE,
       from_self |-> FALSE, date |-> 1],
      [account |-> "work", chat |-> PrivateChat, chat_type |-> "dm",
       message_id |-> 2, text |-> T_plus1, has_media |-> FALSE,
       from_self |-> FALSE, date |-> 2],
      [account |-> "work", chat |-> GroupChat, chat_type |-> "supergroup",
       message_id |-> 2, text |-> T_question, has_media |-> FALSE,
       from_self |-> TRUE, date |-> 2] }

NoAggEvent ==
    [account |-> "none", chat |-> 0, chat_type |-> "none", message_id |-> 0,
     text |-> <<>>, has_media |-> FALSE, from_self |-> FALSE, date |-> 0]

ListenerSlots == 1..MaxDeliveries
AggChats == {GroupChat, PrivateChat}

(***************************************************************************)
(* storage.py                                                              *)
(***************************************************************************)
\* a row of an earlier run, whose account has no listener now
LegacyRow ==
    [id |-> 1, hub_message_id |-> 1, original_message_id |-> 7,
     original_chat_id |-> PrivateChat, source_account |-> LegacyAccount,
     priority |-> "normal", timestamp |-> 0,
     replied |-> FALSE, replied_at |-> 0]

\* Database.is_duplicate: SELECT 1 FROM message_mapping WHERE chat AND message
agg_is_duplicate(table, original_chat_id, original_message_id) ==
    \E i \in 1..Len(table) :
        /\ table[i].original_chat_id = original_chat_id
        /\ table[i].original_message_id = original_message_id

agg_is_muted_never(chat_id) == FALSE

\* Database.is_muted
agg_is_muted(chat_id) == chat_id \in agg_muted

save_message_first_card(table, record) ==
    Append(table,
           [id |-> Len(table) + 1,
            hub_message_id |-> 1,
            original_message_id |-> record.original_message_id,
            original_chat_id |-> record.original_chat_id,
            source_account |-> record.source_account,
            priority |-> record.priority,
            timestamp |-> record.timestamp,
            replied |-> FALSE,
            replied_at |-> 0])

\* Database.save_message: INSERT INTO message_mapping; the table has indexes
\* on hub_message_id and on (original_chat_id, original_message_id), none
\* UNIQUE, so the insert never fails on the content of the record
save_message(table, record) ==
    Append(table,
           [id |-> Len(table) + 1,
            hub_message_id |-> record.hub_message_id,
            original_message_id |-> record.original_message_id,
            original_chat_id |-> record.original_chat_id,
            source_account |-> record.source_account,
            priority |-> record.priority,
            timestamp |-> record.timestamp,
            replied |-> FALSE,
            replied_at |-> 0])

(***************************************************************************)
(* filters.py                                                              *)
(***************************************************************************)
\* MessageFilter.analyze(text, chat_type).should_forward
should_forward(text, chat_type) ==
    IF Lower(Strip(text)) \in noise_set THEN FALSE
    ELSE IF chat_type \in {"group", "supergroup"}
            /\ Len(Strip(text)) < min_group_message_length THEN FALSE
    ELSE IF chat_type = "dm" THEN forward_all_dm
    ELSE IF chat_type \in {"group", "supergroup"} /\ groups_questions_only
         THEN \E i \in 1..Len(text) : text[i] = "?"
    ELSE TRUE

\* word occurs in text
Contains(text, word) ==
    \E i \in 1..(Len(text) - Len(word) + 1) :
        SubSeq(text, i, i + Len(word) - 1) = word

\* MessageFilter.analyze(text, chat_type).priority of a forwarded message:
\* urgent on an urgent keyword (case-insensitive), info on a gratitude word
analyze_priority(text) ==
    IF \E kw \in urgent_keywords : Contains(Lower(text), Lower(kw)) THEN "urgent"
    ELSE IF \E w \in gratitude_words : Contains(Lower(Strip(text)), w) THEN "info"
    ELSE "normal"

\* filters.py:31: _question_re (the alternatives the modelled texts can contain)
question_markers == {<<"?">>, <<"k", "a", "k", " ">>}

T_help_short == <<"h", "e", "l", "p">>
T_help_all == <<"h", "e", "l", "p", "?", " ", "t", "h", "a", "n", "k", "s">>

\* the classifier with the question check deciding the priority first
analyze_question_first(text, chat_type) ==
    LET text_stripped == Strip(text)
        text_lower == Lower(text_stripped)
        urgent == \E kw \in urgent_keywords : Contains(Lower(text), Lower(kw))
        question == \E m \in question_markers : Contains(Lower(text), m)
        gratitude == \E w \in gratitude_words : Contains(text_lower, w)
        priority == IF question THEN "normal"
                    ELSE IF urgent THEN "urgent"
                    ELSE IF gratitude THEN "info" ELSE "normal"
        tags == (IF urgent THEN {"urgent"} ELSE {})
                   \cup (IF question THEN {"question"} ELSE {})
                   \cup (IF gratitude THEN {"gratitude"} ELSE {})
        is_group == chat_type \in {"group", "supergroup"}
    IN IF text_lower \in noise_set
       THEN [should_forward |-> FALSE, priority |-> "info",
             reason |-> "noise_pattern", tags |-> {"noise"}]
       ELSE IF is_group /\ Len(text_stripped) < min_group_message_length
       THEN [should_forward |-> FALSE, priority |-> "info",
             reason |-> "too_short_for_group", tags |-> {"short"}]
       ELSE IF chat_type = "dm"
       THEN [should_forward |-> forward_all_dm, priority |-> priority,
             reason |-> "dm_message", tags |-> IF tags = {} THEN {"dm"} ELSE tags]
       ELSE IF is_group /\ groups_questions_only
       THEN [should_forward |-> (urgent \/ question), priority |-> priority,
             reason |-> IF urgent \/ question THEN "group_questions_filter"
                        ELSE "not_a_question",
             tags |-> IF tags = {} THEN {"group"} ELSE tags]
       ELSE IF is_group
       THEN [should_forward |-> TRUE, priority |-> priority,
             reason |-> "group_all_messages",
             tags |-> IF tags = {} THEN {"group"} ELSE tags]
       ELSE [should_forward |-> TRUE, priority |-> priority,
             reason |-> "default", tags |-> tags]

\* MessageFilter.analyze(text, chat_type): the FilterResult
analyze(text, chat_type) ==
    LET text_stripped == Strip(text)
        text_lower == Lower(text_stripped)
        urgent == \E kw \in urgent_keywords : Contains(Lower(text), Lower(kw))
        question == \E m \in question_markers : Contains(Lower(text), m)
        gratitude == \E w \in gratitude_words : Contains(text_lower, w)
        priority == IF urgent THEN "urgent"
                    ELSE IF gratitude THEN "info" ELSE "normal"
        tags == (IF urgent THEN {"urgent"} ELSE {})
                   \cup (IF question THEN {"question"} ELSE {})
                   \cup (IF gratitude THEN {"gratitude"} ELSE {})
        is_group == chat_type \in {"group", "supergroup"}
    IN IF text_lower \in noise_set
       THEN [should_forward |-> FALSE, priority |-> "info",
             reason |-> "noise_pattern", tags |-> {"noise"}]
       ELSE IF is_group /\ Len(text_stripped) < min_group_message_length
       THEN [should_forward |-> FALSE, priority |-> "info",
             reason |-> "too_short_for_group", tags |-> {"short"}]
       ELSE IF chat_type = "dm"
       THEN [should_forward |-> forward_all_dm, priority |-> priority,
             reason |-> "dm_message", tags |-> IF tags = {} THEN {"dm"} ELSE tags]
       ELSE IF is_group /\ groups_questions_only
       THEN [should_forward |-> (urgent \/ question), priority |-> priority,
             reason |-> IF urgent \/ question THEN "group_questions_filter"
                        ELSE "not_a_question",
             tags |-> IF tags = {} THEN {"group"} ELSE tags]
       ELSE IF is_group
       THEN [should_forward |-> TRUE, priority |-> priority,
             reason |-> "group_all_messages",
             tags |-> IF tags = {} THEN {"group"} ELSE tags]
       ELSE [should_forward |-> TRUE, priority |-> priority,
             reason |-> "default", tags |-> tags]

(***************************************************************************)
(* aggregator.py: AccountListener._on_new_message                          *)
(***************************************************************************)
\* aggregator.py:174-188: the MessageRecord of a forwarded event; a message
\* without text has the priority normal
MessageRecord(hub_message_id, ev) ==
    [hub_message_id |-> hub_message_id,
     original_message_id |-> ev.message_id,
     original_chat_id |-> ev.chat,
     source_account |-> ev.account,
     priority |-> IF ev.text # <<>> THEN analyze_priority(ev.text) ELSE "normal",
     timestamp |-> ev.date]

\* the verdict of the gates, from the handler's start to the hub send
AggGate(ev) ==
    IF ev.from_self THEN "self"
    ELSE IF ev.text = <<>> /\ ~ev.has_media THEN "empty"
    ELSE IF agg_is_muted(ev.chat) THEN "muted"
    ELSE IF agg_is_duplicate(message_mapping, ev.chat, ev.message_id) THEN "duplicate"
    ELSE IF ev.text # <<>> /\ ~should_forward(ev.text, ev.chat_type) THEN "filtered"
    ELSE "pass"

\* aggregator.py:197-201: is a draft task started for the forwarded message
DraftEligible(ev) ==
    /\ ai_enabled
    /\ ev.text # <<>>
    /\ Len(ev.text) >= ai_min_message_length
    /\ ~ai_draft_for_dm_only \/ ev.chat_type = "dm"

\* a handler invocation: its position, its event, the hub card it posted, how
\* it ended, and whether its chat was muted when it reached the mute check
ListenerIdle == [pc |-> "idle", ev |-> NoAggEvent, hub |-> 0, outcome |-> "none",
                 muted |-> FALSE]

EmptyMap == [x \in {} |-> <<>>]

MapSet_keep(f, k, v) ==
    IF k \in DOMAIN f THEN f
    ELSE [x \in DOMAIN f \cup {k} |-> IF x = k THEN v ELSE f[x]]

\* f with key k set to v (dict assignment)
MapSet(f, k, v) == [x \in DOMAIN f \cup {k} |-> IF x = k THEN v ELSE f[x]]

\* f without key k (dict.pop)
MapDel(f, k) == [x \in DOMAIN f \ {k} |-> f[x]]

AggSaveTail_awaits(p, id) ==
    /\ message_mapping' = save_message(message_mapping, MessageRecord(id, lh[p].ev))
    /\ dt' = IF DraftEligible(lh[p].ev)
             THEN MapSet(dt, id, [pc |-> "start", result |-> "none"])
             ELSE dt
    /\ lh' = IF DraftEligible(lh[p].ev)
             THEN [lh EXCEPT ![p].pc = "media", ![p].hub = id]
             ELSE [lh EXCEPT ![p].pc = "done", ![p].hub = id, ![p].outcome = "saved"]

\* the tail of the handler after the hub card (and the media) went out:
\* save_message, then asyncio.create_task(_generate_ai_draft) when eligible
AggSaveTail(p, id) ==
    /\ message_mapping' = save_message(message_mapping, MessageRecord(id, lh[p].ev))
    /\ dt' = IF DraftEligible(lh[p].ev)
             THEN MapSet(dt, id, [pc |-> "start", result |-> "none"])
             ELSE dt
    /\ lh' = [lh EXCEPT ![p].pc = "done", ![p].hub = id, ![p].outcome = "saved"]

\* from the start of the handler to its await of bot.send_message
AggReceive(p, ev) ==
    /\ lh[p].pc = "idle"
    /\ \A q \in ListenerSlots : q < p => lh[q].pc # "idle"
    /\ LET verdict == AggGate(ev)
       IN lh' = [lh EXCEPT ![p] =
                    IF verdict = "pass"
                    THEN [pc |-> "sending", ev |-> ev, hub |-> 0, outcome |-> "none",
                          muted |-> ev.chat \in agg_muted]
                    ELSE [pc |-> "done", ev |-> ev, hub |-> 0, outcome |-> verdict,
                          muted |-> ev.chat \in agg_muted]]
    /\ UNCHANGED <<message_mapping, agg_muted, hub, pending_drafts, dt>>
    /\ UNCHANGED <<botVars, routerVars>>

\* config.hub_chat_id
HubChat == 3

\* formatter.py: the hub card of a text: the header lines, the text, the hint
\* to reply (header and hint abbreviated)
format_hub_message(text) ==
    <<"-", "-", "\n">> \o text \o <<"\n", "R", "e", "p", "l", "y", "\n", "-", "-">>

\* the hub card that listener invocation q posted, as the NewMessage event
\* it is for an account that is a member of the hub chat: sent by the hub
\* bot, so incoming and not from the account itself
HubEcho(q, account) ==
    [account |-> account, chat |-> HubChat, chat_type |-> "supergroup",
     message_id |-> lh[q].hub,
     text |-> format_hub_message(IF lh[q].ev.text # <<>> THEN lh[q].ev.text
                                 ELSE <<"[", "M", "]">>),
     has_media |-> FALSE, from_self |-> FALSE, date |-> lh[q].ev.date]

\* events.NewMessage(incoming=True) has no chat filter: the handler runs for
\* a hub card as for any other incoming message
AggReceiveEcho(p, q, account) ==
    /\ lh[q].hub # 0
    /\ AggReceive(p, HubEcho(q, account))

\* bot.send_message(hub) returns the hub card
AggSendOk(p) ==
    /\ lh[p].pc = "sending"
    /\ LET id == Len(hub) + 1
       IN /\ hub' = Append(hub, [kind |-> "card", reply_to |-> 0])
          /\ IF lh[p].ev.has_media
             THEN /\ lh' = [lh EXCEPT ![p].pc = "media", ![p].hub = id]
                  /\ UNCHANGED <<message_mapping, dt>>
             ELSE AggSaveTail(p, id)
    /\ UNCHANGED <<agg_muted, pending_drafts>>
    /\ UNCHANGED <<botVars, routerVars>>

\* bot.send_message(hub) raises: the handler's except logs it
AggSendFail(p) ==
    /\ lh[p].pc = "sending"
    /\ lh' = [lh EXCEPT ![p].pc = "done", ![p].outcome = "send_failed"]
    /\ UNCHANGED <<message_mapping, agg_muted, hub, pending_drafts, dt>>
    /\ UNCHANGED <<botVars, routerVars>>

\* the attachment: forward_messages returns ("forwarded"); or it raises and
\* the fallback re-uploads the download ("reuploaded"), has nothing to
\* upload ("skipped"), or raises itself ("failed": the handler's except is
\* reached and save_message is not)
AggMedia(p, result) ==
    /\ lh[p].pc = "media"
    /\ hub' = IF result \in {"forwarded", "reuploaded"}
              THEN Append(hub, [kind |-> "media", reply_to |-> 0])
              ELSE hub
    /\ IF result = "failed"
       THEN /\ lh' = [lh EXCEPT ![p].pc = "done", ![p].outcome = "media_failed"]
            /\ UNCHANGED <<message_mapping, dt>>
       ELSE AggSaveTail(p, lh[p].hub)
    /\ UNCHANGED <<agg_muted, pending_drafts>>
    /\ UNCHANGED <<botVars, routerVars>>

(***************************************************************************)
(* aggregator.py: AccountListener._generate_ai_draft (an asyncio task)     *)
(***************************************************************************)
\* the task starts: AIAssistant.generate_draft returns None at once when the
\* assistant is disabled, else it goes to the model
DraftBegin(h) ==
    /\ h \in DOMAIN dt
    /\ dt[h].pc = "start"
    /\ dt' = [dt EXCEPT ![h].pc = IF ai_enabled THEN "generating" ELSE "done"]
    /\ UNCHANGED <<message_mapping, agg_muted, hub, pending_drafts, lh>>
    /\ UNCHANGED <<botVars, routerVars>>

DraftResult_registers(h, result) ==
    /\ h \in DOMAIN dt
    /\ dt[h].pc = "generating"
    /\ dt' = [dt EXCEPT ![h].pc = IF result = "none" THEN "done" ELSE "posting",
                        ![h].result = result]
    /\ pending_drafts' = IF result = "none" THEN pending_drafts
                         ELSE MapSet(pending_drafts, h,
                                     IF result = "draft" THEN T_draft ELSE <<>>)
    /\ UNCHANGED <<message_mapping, agg_muted, hub, lh>>
    /\ UNCHANGED <<botVars, routerVars>>

\* generate_draft returns: None (a reply that is not 200, a timeout, an
\* exception: all end in return None), a result with should_respond false,
\* or a draft text, which is registered before the post; result is kept with
\* the task
DraftResult(h, result) ==
    /\ h \in DOMAIN dt
    /\ dt[h].pc = "generating"
    /\ IF result \in {"none", "no_response"}
       THEN /\ dt' = [dt EXCEPT ![h].pc = "done", ![h].result = result]
            /\ pending_drafts' = pending_drafts
       ELSE /\ dt' = [dt EXCEPT ![h].pc = "posting", ![h].result = result]
            /\ pending_drafts' = MapSet(pending_drafts, h, T_draft)
    /\ UNCHANGED <<message_mapping, agg_muted, hub, lh>>
    /\ UNCHANGED <<botVars, routerVars>>

\* bot.send_message(hub, draft, reply_to=h) returns or raises
DraftPost(h, ok) ==
    /\ h \in DOMAIN dt
    /\ dt[h].pc = "posting"
    /\ hub' = IF ok THEN Append(hub, [kind |-> "draft", reply_to |-> h]) ELSE hub
    /\ dt' = [dt EXCEPT ![h].pc = "done"]
    /\ UNCHANGED <<message_mapping, agg_muted, pending_drafts, lh>>
    /\ UNCHANGED <<botVars, routerVars>>

(***************************************************************************)
(* commands.py: /mute, /unmute                                             *)
(***************************************************************************)
AggMute(c) ==
    /\ c \notin agg_muted
    /\ agg_muted' = agg_muted \cup {c}
    /\ UNCHANGED <<message_mapping, hub, pending_drafts, lh, dt>>
    /\ UNCHANGED <<botVars, routerVars>>

AggUnmute(c) ==
    /\ c \in agg_muted
    /\ agg_muted' = agg_muted \ {c}
    /\ UNCHANGED <<message_mapping, hub, pending_drafts, lh, dt>>
    /\ UNCHANGED <<botVars, routerVars>>

HubIds == 1..Len(hub)

(***************************************************************************)
(* storage.py, aggregator.py, assistant.py: what the router calls          *)
(***************************************************************************)
find_by_hub_message_any(table, hub_message_id) ==
    IF \E i \in 1..Len(table) : table[i].hub_message_id = hub_message_id
    THEN CHOOSE i \in 1..Len(table) : table[i].hub_message_id = hub_message_id
    ELSE Len(table)

\* Database.find_by_hub_message: the first row with the hub id, or None (0)
find_by_hub_message(table, hub_message_id) ==
    IF \E i \in 1..Len(table) : table[i].hub_message_id = hub_message_id
    THEN CHOOSE i \in 1..Len(table) :
            /\ table[i].hub_message_id = hub_message_id
            /\ \A j \in 1..(i - 1) : table[j].hub_message_id # hub_message_id
    ELSE 0

mark_replied_all(table, hub_message_id, now) ==
    [i \in 1..Len(table) |->
        [table[i] EXCEPT !.replied = TRUE, !.replied_at = now]]

\* Database.mark_replied: UPDATE ... SET replied = 1, replied_at = now WHERE hub id
mark_replied(table, hub_message_id, now) ==
    [i \in 1..Len(table) |->
        IF table[i].hub_message_id = hub_message_id
        THEN [table[i] EXCEPT !.replied = TRUE, !.replied_at = now]
        ELSE table[i]]

\* one call of Database.mark_replied: its argument and the rows the UPDATE matched
MarkCall(table, hub_message_id) ==
    [hub_message_id |-> hub_message_id,
     rowcount |-> Cardinality({i \in 1..Len(table) :
                                  table[i].hub_message_id = hub_message_id})]

\* get_unreplied: CASE priority WHEN 'urgent' THEN 0 ... END; any other value
\* gives NULL, which sorts before every number
priority_rank(priority) ==
    CASE priority = "urgent" -> 0
      [] priority = "normal" -> 1
      [] priority = "info" -> 2
      [] OTHER -> -1

\* row i comes no later than row j under ORDER BY rank, timestamp ASC
OrderedBefore(table, i, j) ==
    \/ priority_rank(table[i].priority) < priority_rank(table[j].priority)
    \/ /\ priority_rank(table[i].priority) = priority_rank(table[j].priority)
       /\ table[i].timestamp <= table[j].timestamp

\* Database.get_unreplied(limit): the results the query admits, as sequences
\* of row ids.  The ORDER BY names the priority rank and the timestamp only,
\* so the engine is free in the order of rows that agree on both.
get_unreplied(table, limit) ==
    LET open == {i \in 1..Len(table) : ~table[i].replied}
        n == Cardinality(open)
        orders == {s \in [1..n -> open] :
                      /\ \A k, l \in 1..n : k # l => s[k] # s[l]
                      /\ \A k, l \in 1..n :
                            k < l => OrderedBefore(table, s[k], s[l])}
    IN {SubSeq(s, 1, IF limit < n THEN limit ELSE n) : s \in orders}

get_client_for_account_first(account_name) == listeners[1]

\* Aggregator.get_client_for_account: the client of the first listener of
\* that name, or None ("none"); a client is named by its account
get_client_for_account(account_name) ==
    IF \E i \in 1..Len(listeners) : listeners[i] = account_name
    THEN listeners[CHOOSE i \in 1..Len(listeners) :
                      /\ listeners[i] = account_name
                      /\ \A j \in 1..(i - 1) : listeners[j] # account_name]
    ELSE "none"

handle_action_unlogged(drafts, stats, hub_message_id, action, final_text, by) ==
    [drafts |-> MapDel(drafts, hub_message_id), stats |-> stats]

\* AIAssistant.handle_action: pop the draft (default ""), log_ai_action.  Its
\* callers pass no original_question, so save_learned_reply is not reached.
handle_action(drafts, stats, hub_message_id, action, final_text, by) ==
    [drafts |-> MapDel(drafts, hub_message_id),
     stats |-> Append(stats,
                  [hub_message_id |-> hub_message_id,
                   draft_text |-> IF hub_message_id \in DOMAIN drafts
                                  THEN drafts[hub_message_id] ELSE <<>>,
                   action |-> action,
                   final_text |-> final_text,
                   by |-> by])]

(***************************************************************************)
(* router.py: ReplyRouter                                                  *)
(***************************************************************************)
T_OK_sp == <<" ", "!", "O", "K">>
T_okk == <<"!", "o", "k", "k">>

\* what the moderator writes as a reply in the hub; <<>> is a reply without
\* text (a sticker, a photo)
ReplyTexts == {<<>>, T_OK_sp, T_no, T_okk}

RouterSlots == 1..MaxReplies

\* router.py:74: reply_text.strip().lower() in ("!ok", "!no")
is_shorthand(text) == Lower(Strip(text)) \in {T_ok, T_no}

HubReplyPath_any_token(text, reply_to_id) ==
    IF text = <<>> THEN "ignored"
    ELSE IF is_shorthand(text)
         THEN IF Lower(Strip(text)) = T_ok THEN "accept" ELSE "reject"
    ELSE "manual"

\* ReplyRouter._on_hub_reply, lines 59-107: the branch a reply takes
HubReplyPath(text, reply_to_id) ==
    IF text = <<>> THEN "ignored"
    ELSE IF is_shorthand(text) /\ reply_to_id \in DOMAIN pending_drafts
         THEN IF Lower(Strip(text)) = T_ok THEN "accept" ELSE "reject"
    ELSE IF Lower(Strip(text)) = T_ok
            /\ reply_to_id \in DOMAIN pending_drafts
            /\ pending_drafts[reply_to_id] # <<>>
         THEN "accept"
    ELSE IF Lower(Strip(text)) = T_no /\ reply_to_id \in DOMAIN pending_drafts
         THEN "reject_late"
    ELSE "manual"

\* an invocation of _on_hub_reply: its position and locals; sent is the outcome
\* of client.send_message, marked_at the replied_at its mark_replied wrote
RouterIdle ==
    [pc |-> "idle", reply_to |-> 0, text |-> <<>>, path |-> "none",
     send_text |-> <<>>, row |-> 0, client |-> "none", notice |-> "none",
     had_draft |-> FALSE, draft |-> <<>>, sent |-> "none", marked_at |-> 0,
     raised |-> "none"]

\* _on_hub_reply from its start to its first await: the branch; for "!no"
\* the whole rejection; else _send_reply_to_original up to asyncio.sleep
RouterReceive(p, reply_to_id, text) ==
    /\ rh[p].pc = "idle"
    /\ \A q \in RouterSlots : q < p => rh[q].pc # "idle"
    /\ LET path == HubReplyPath(text, reply_to_id)
           had == reply_to_id \in DOMAIN pending_drafts
           draft == IF had THEN pending_drafts[reply_to_id] ELSE <<>>
           base == [RouterIdle EXCEPT !.reply_to = reply_to_id, !.text = text,
                                      !.path = path, !.had_draft = had,
                                      !.draft = draft]
           row == find_by_hub_message(message_mapping, reply_to_id)
           client == IF row = 0 THEN "none"
                     ELSE get_client_for_account(message_mapping[row].source_account)
       IN CASE path = "ignored" ->
                 /\ rh' = [rh EXCEPT ![p] = [base EXCEPT !.pc = "done"]]
                 /\ UNCHANGED <<pending_drafts, ai_stats>>
            [] path \in {"reject", "reject_late"} ->
                 LET popped == IF path = "reject"
                               THEN MapDel(pending_drafts, reply_to_id)
                               ELSE pending_drafts
                     res == handle_action(popped, ai_stats, reply_to_id,
                                          "rejected", <<>>, p)
                 IN /\ pending_drafts' = res.drafts
                    /\ ai_stats' = res.stats
                    /\ rh' = [rh EXCEPT ![p] =
                                 [base EXCEPT !.pc = "done", !.notice = "rejected"]]
            [] OTHER ->
                 /\ UNCHANGED <<pending_drafts, ai_stats>>
                 /\ rh' = [rh EXCEPT ![p] =
                       IF row = 0
                       THEN [base EXCEPT !.pc = "done", !.notice = "not_found"]
                       ELSE IF client = "none"
                       THEN [base EXCEPT !.pc = "done", !.row = row,
                                         !.notice = "no_client"]
                       ELSE [base EXCEPT !.pc = "sleeping", !.row = row,
                                         !.client = client,
                                         !.send_text = IF path = "accept"
                                                       THEN draft ELSE text]]
    /\ UNCHANGED <<message_mapping, agg_muted, hub, lh, dt>>
    /\ UNCHANGED <<ai_enabled, learned_replies, outbox, mark_clock, mark_calls>>
    /\ UNCHANGED botVars

\* after the delay client.send_message returns: mark_replied, the draft
\* bookkeeping, the confirmation
RouterSendOk(p) ==
    /\ rh[p].pc = "sleeping"
    /\ LET h == rh[p].reply_to
           record == message_mapping[rh[p].row]
           now == mark_clock + 1
       IN /\ outbox' = Append(outbox,
                 [client |-> rh[p].client,
                  chat |-> record.original_chat_id,
                  reply_to |-> record.original_message_id,
                  text |-> rh[p].send_text,
                  hub |-> h,
                  by |-> p])
          /\ message_mapping' = mark_replied(message_mapping, h, now)
          /\ mark_clock' = now
          /\ mark_calls' = Append(mark_calls, MarkCall(message_mapping, h))
          /\ IF rh[p].path = "accept"
             THEN LET res == handle_action(pending_drafts, ai_stats, h,
                                           "accepted", rh[p].send_text, p)
                  IN /\ pending_drafts' = res.drafts
                     /\ ai_stats' = res.stats
                     /\ learned_replies' = learned_replies
             ELSE IF ai_enabled
             THEN IF h \in DOMAIN pending_drafts
                  THEN LET res == handle_action(MapDel(pending_drafts, h), ai_stats,
                                                h, "edited", rh[p].send_text, p)
                       IN /\ pending_drafts' = res.drafts
                          /\ ai_stats' = res.stats
                          /\ learned_replies' = learned_replies
                  ELSE /\ learned_replies' =
                              Append(learned_replies,
                                     [reply_text |-> rh[p].send_text, by |-> p])
                       /\ UNCHANGED <<pending_drafts, ai_stats>>
             ELSE UNCHANGED <<pending_drafts, ai_stats, learned_replies>>
          /\ rh' = [rh EXCEPT ![p].pc = "done",
                              ![p].sent = "ok",
                              ![p].marked_at = now,
                              ![p].notice = IF rh[p].path = "accept"
                                            THEN "sent_ai" ELSE "sent"]
    /\ UNCHANGED <<agg_muted, hub, lh, dt, ai_enabled>>
    /\ UNCHANGED botVars

\* RouterSendFail with the draft taken before the dispatch
RouterSendFail_pops(p) ==
    /\ rh[p].pc = "sleeping"
    /\ rh' = [rh EXCEPT ![p].pc = "done", ![p].sent = "failed",
                        ![p].notice = "error"]
    /\ pending_drafts' = IF rh[p].path = "accept"
                         THEN MapDel(pending_drafts, rh[p].reply_to)
                         ELSE pending_drafts
    /\ UNCHANGED <<message_mapping, agg_muted, hub, lh, dt>>
    /\ UNCHANGED <<ai_enabled, ai_stats, learned_replies, outbox, mark_clock, mark_calls>>
    /\ UNCHANGED botVars

\* client.send_message raises: the except branch reports the error
RouterSendFail(p) ==
    /\ rh[p].pc = "sleeping"
    /\ rh' = [rh EXCEPT ![p].pc = "done", ![p].sent = "failed",
                        ![p].notice = "error"]
    /\ UNCHANGED ingestVars
    /\ UNCHANGED <<ai_enabled, ai_stats, learned_replies, outbox, mark_clock, mark_calls>>
    /\ UNCHANGED botVars

\* commands.py: /ai_off
AiOff ==
    /\ ai_enabled
    /\ ai_enabled' = FALSE
    /\ UNCHANGED ingestVars
    /\ UNCHANGED <<ai_stats, learned_replies, outbox, mark_clock, mark_calls, rh>>
    /\ UNCHANGED botVars

\* commands.py: /ai_on
AiOn ==
    /\ ~ai_enabled
    /\ ai_enabled' = TRUE
    /\ UNCHANGED ingestVars
    /\ UNCHANGED <<ai_stats, learned_replies, outbox, mark_clock, mark_calls, rh>>
    /\ UNCHANGED botVars

\* the hub messages the moderator can reply to; 0 stands for a hub message
\* that is no card (the moderator's own post, a notice)
HubTargets == 0..Len(hub)

(***************************************************************************)
(* Specifications                                                          *)
(***************************************************************************)
AggInit ==
    /\ \E legacy \in BOOLEAN :
          /\ message_mapping = IF legacy THEN <<LegacyRow>> ELSE <<>>
          /\ hub = IF legacy THEN <<[kind |-> "card", reply_to |-> 0]>> ELSE <<>>
    /\ agg_muted = {}
    /\ pending_drafts = EmptyMap
    /\ ai_enabled = TRUE
    /\ ai_stats = <<>>
    /\ learned_replies = <<>>
    /\ outbox = <<>>
    /\ mark_clock = 0
    /\ mark_calls = <<>>
    /\ lh = [p \in ListenerSlots |-> ListenerIdle]
    /\ dt = EmptyMap
    /\ rh = [p \in RouterSlots |-> RouterIdle]

Init == BotInit /\ AggInit

\* the Bot-API lineage: business and group handlers with the mute commands
SpecBot == Init /\ [][BotNext]_vars

\* the Bot-API lineage with the GetCourse webhook beside it
LmsNext ==
    \/ BotNext
    \/ \E p \in BotSlots, ev \in GetCourseEvents : GetCourseReceive(p, ev)
    \/ \E p \in BotSlots : GetCourseSendOk(p)
    \/ \E p \in BotSlots : GetCourseSendFail(p)

SpecLms == Init /\ [][LmsNext]_vars

\* the account listeners, their draft tasks and the mute commands
IngestNext ==
    \/ \E p \in ListenerSlots, ev \in AggEvents : AggReceive(p, ev)
    \/ \E p \in ListenerSlots : AggSendOk(p)
    \/ \E p \in ListenerSlots : AggSendFail(p)
    \/ \E p \in ListenerSlots,
          result \in {"forwarded", "reuploaded", "skipped", "failed"} :
            AggMedia(p, result)
    \/ \E h \in HubIds : DraftBegin(h)
    \/ \E h \in HubIds, result \in {"none", "no_response", "draft"} :
            DraftResult(h, result)
    \/ \E h \in HubIds, ok \in BOOLEAN : DraftPost(h, ok)
    \/ \E c \in AggChats : AggMute(c)
    \/ \E c \in AggChats : AggUnmute(c)

SpecIngest == Init /\ [][IngestNext]_vars

\* the updates and events delivered so far to the handlers of both lineages
Delivered ==
    Cardinality({p \in BotSlots : bh[p].pc # "idle"})
        + Cardinality({p \in ListenerSlots : lh[p].pc # "idle"})

\* every inbound path side by side: the business and group handlers of the
\* bot, the account listeners with their draft tasks, and the mute commands
\* of both
ForwardNext ==
    \/ \E p \in BotSlots, ev \in BotEvents :
            Delivered < MaxJointDeliveries /\ BotReceive(p, ev)
    \/ \E p \in BotSlots : BotSendOk(p)
    \/ \E p \in BotSlots : BotSendFail(p)
    \/ \E p \in BotSlots, forwarded \in BOOLEAN : BotMedia(p, forwarded)
    \/ \E c \in BotChats : BotMute(c)
    \/ \E c \in BotChats : BotUnmute(c)
    \/ \E p \in ListenerSlots, ev \in AggEvents :
            Delivered < MaxJointDeliveries /\ AggReceive(p, ev)
    \/ \E p, q \in ListenerSlots, a \in {"work", "personal"} :
            Delivered < MaxJointDeliveries /\ AggReceiveEcho(p, q, a)
    \/ \E p \in ListenerSlots : AggSendOk(p)
    \/ \E p \in ListenerSlots : AggSendFail(p)
    \/ \E p \in ListenerSlots,
          result \in {"forwarded", "reuploaded", "skipped", "failed"} :
            AggMedia(p, result)
    \/ \E h \in HubIds : DraftBegin(h)
    \/ \E h \in HubIds, result \in {"none", "no_response", "draft"} :
            DraftResult(h, result)
    \/ \E h \in HubIds, ok \in BOOLEAN : DraftPost(h, ok)
    \/ \E c \in AggChats : AggMute(c)
    \/ \E c \in AggChats : AggUnmute(c)

SpecForward == Init /\ [][ForwardNext]_vars

(***************************************************************************)
(* storage.py called directly: the mapping store on its own                *)
(***************************************************************************)
\* the records save_message is called with
StoreRecords ==
    [hub_message_id : 1..MaxStoreHubId,
     original_message_id : {1},
     original_chat_id : {GroupChat},
     source_account : {"work"},
     priority : {"urgent", "normal", "info"},
     timestamp : 1..MaxStoreTime]

\* Database.save_message(record)
StoreSave(record) ==
    /\ Len(message_mapping) < MaxStoreRows
    /\ message_mapping' = save_message(message_mapping, record)
    /\ UNCHANGED <<agg_muted, hub, pending_drafts, lh, dt>>
    /\ UNCHANGED <<botVars, routerVars>>

\* Database.mark_replied(hub_message_id) for a hub message still unreplied
StoreMarkReplied(hub_message_id) ==
    /\ \E i \in 1..Len(message_mapping) :
          /\ message_mapping[i].hub_message_id = hub_message_id
          /\ ~message_mapping[i].replied
    /\ message_mapping' = mark_replied(message_mapping, hub_message_id, mark_clock + 1)
    /\ mark_clock' = mark_clock + 1
    /\ mark_calls' = Append(mark_calls, MarkCall(message_mapping, hub_message_id))
    /\ UNCHANGED <<agg_muted, hub, pending_drafts, lh, dt>>
    /\ UNCHANGED <<ai_enabled, ai_stats, learned_replies, outbox, rh>>
    /\ UNCHANGED botVars

\* Database.mark_replied(hub_message_id) for any hub id: one that was never
\* saved, one still unreplied, one already replied
StoreMarkAgain(hub_message_id) ==
    /\ Len(mark_calls) < MaxMarkCalls
    /\ message_mapping' = mark_replied(message_mapping, hub_message_id, mark_clock + 1)
    /\ mark_clock' = mark_clock + 1
    /\ mark_calls' = Append(mark_calls, MarkCall(message_mapping, hub_message_id))
    /\ UNCHANGED <<agg_muted, hub, pending_drafts, lh, dt>>
    /\ UNCHANGED <<ai_enabled, ai_stats, learned_replies, outbox, rh>>
    /\ UNCHANGED botVars

StoreNext ==
    \/ \E record \in StoreRecords : StoreSave(record)
    \/ \E h \in 1..MaxStoreHubId : StoreMarkReplied(h)

SpecStore == Init /\ [][StoreNext]_vars

\* the store under saves of two cards' records and repeated marks
MarkRecords == {record \in StoreRecords : record.priority = "normal" /\ record.timestamp = 1}

MarkNext ==
    \/ \E record \in MarkRecords : StoreSave(record)
    \/ \E h \in 1..(MaxStoreHubId + 1) : StoreMarkAgain(h)

SpecMark == Init /\ [][MarkNext]_vars

(***************************************************************************)
(* The classifier alone: calls of MessageFilter.analyze                    *)
(***************************************************************************)
ClassifierTexts ==
    {T_spasibo, T_Spasibo_sp, T_plus1, T_help, T_help_short, T_help_all,
     T_thanks, T_question, T_hello}

\* AccountListener._get_chat_type
ChatTypes == {"dm", "group", "supergroup", "channel"}

ClassifySlots == 1..MaxClassifyCalls

NoFilterResult == [should_forward |-> FALSE, priority |-> "none",
                   reason |-> "none", tags |-> {}]

\* the calls to make: each with its text and chat type
ClassifyInit ==
    /\ BotInit
    /\ message_mapping = <<>> /\ hub = <<>>
    /\ agg_muted = {}
    /\ pending_drafts = EmptyMap
    /\ ai_enabled = TRUE
    /\ ai_stats = <<>>
    /\ learned_replies = <<>>
    /\ outbox = <<>>
    /\ mark_clock = 0
    /\ mark_calls = <<>>
    /\ lh \in [ClassifySlots ->
                 [pc : {"call"}, text : ClassifierTexts, chat_type : ChatTypes,
                  filter_result : {NoFilterResult}]]
    /\ dt = EmptyMap
    /\ rh = [p \in RouterSlots |-> RouterIdle]

\* aggregator.py:112: filter_result = self.filter.analyze(text, chat_type)
Classify(p) ==
    /\ lh[p].pc = "call"
    /\ lh' = [lh EXCEPT ![p].pc = "returned",
                        ![p].filter_result = analyze(lh[p].text, lh[p].chat_type)]
    /\ UNCHANGED <<message_mapping, agg_muted, hub, pending_drafts, dt>>
    /\ UNCHANGED <<botVars, routerVars>>

ClassifyNext == \E p \in ClassifySlots : Classify(p)

SpecClassify == ClassifyInit /\ [][ClassifyNext]_vars

(***************************************************************************)
(* The registration of drafts on its own: aggregator.py:249-260,           *)
(* assistant.py:197                                                        *)
(***************************************************************************)
DraftTexts == {T_draft, T_draft_other}

\* _generate_ai_draft, lines 251-260: the draft text is stored under the hub
\* message id and posted to the hub as a reply to that message
RegisterDraft(hub_msg_id, draft_text) ==
    /\ Len(hub) < MaxDraftPosts
    /\ pending_drafts' = MapSet(pending_drafts, hub_msg_id, draft_text)
    /\ hub' = Append(hub, [kind |-> "draft", reply_to |-> hub_msg_id])
    /\ UNCHANGED <<message_mapping, agg_muted, lh, dt>>
    /\ UNCHANGED <<botVars, routerVars>>

\* pending_drafts.pop(hub_message_id, ...)
DiscardDraft(hub_message_id) ==
    /\ hub_message_id \in DOMAIN pending_drafts
    /\ pending_drafts' = MapDel(pending_drafts, hub_message_id)
    /\ UNCHANGED <<message_mapping, agg_muted, hub, lh, dt>>
    /\ UNCHANGED <<botVars, routerVars>>

DraftsNext ==
    \/ \E h \in 1..MaxDraftHubId, t \in DraftTexts : RegisterDraft(h, t)
    \/ \E h \in 1..MaxDraftHubId : DiscardDraft(h)

SpecDrafts == Init /\ [][DraftsNext]_vars

\* the events delivered while the router is under study: a group question
\* (a draft is started for it) and a private message with an attachment
RoutedEvents ==
    {ev \in AggEvents :
        ev.message_id = 1 /\ (ev.account = "work" \/ ev.chat = PrivateChat)}

\* the account listeners, the draft tasks, the reply router and /ai_on, /ai_off
Next ==
    \/ \E p \in 1..MaxRoutedDeliveries, ev \in RoutedEvents : AggReceive(p, ev)
    \/ \E p \in ListenerSlots : AggSendOk(p)
    \/ \E p \in ListenerSlots : AggSendFail(p)
    \/ \E p \in ListenerSlots,
          result \in {"forwarded", "reuploaded", "skipped", "failed"} :
            AggMedia(p, result)
    \/ \E h \in HubIds : DraftBegin(h)
    \/ \E h \in HubIds, result \in {"none", "no_response", "draft"} :
            DraftResult(h, result)
    \/ \E h \in HubIds, ok \in BOOLEAN : DraftPost(h, ok)
    \/ \E p \in RouterSlots, h \in HubTargets, text \in ReplyTexts :
            RouterReceive(p, h, text)
    \/ \E p \in RouterSlots : RouterSendOk(p)
    \/ \E p \in RouterSlots : RouterSendFail(p)
    \/ AiOff
    \/ AiOn

Spec == Init /\ [][Next]_vars

(***************************************************************************)
(* Storage and transport failures outside the handlers' try blocks         *)
(***************************************************************************)
\* find_by_hub_message raises (sqlite3.Error): router.py:95 and 118 are not
\* inside a try, the exception leaves _on_hub_reply
RouterLookupFail(p, reply_to_id, text) ==
    /\ rh[p].pc = "idle"
    /\ \A q \in RouterSlots : q < p => rh[q].pc # "idle"
    /\ HubReplyPath(text, reply_to_id) \in {"accept", "manual", "reject_late"}
    /\ rh' = [rh EXCEPT ![p] =
                 [RouterIdle EXCEPT !.pc = "raised", !.reply_to = reply_to_id,
                                    !.text = text,
                                    !.path = HubReplyPath(text, reply_to_id),
                                    !.had_draft = reply_to_id \in DOMAIN pending_drafts,
                                    !.draft = IF reply_to_id \in DOMAIN pending_drafts
                                              THEN pending_drafts[reply_to_id]
                                              ELSE <<>>]]
    /\ UNCHANGED ingestVars
    /\ UNCHANGED <<ai_enabled, ai_stats, learned_replies, outbox, mark_clock, mark_calls>>
    /\ UNCHANGED botVars

\* "!no": the draft is popped (router.py:207), then log_ai_action raises in
\* handle_action (knowledge_base.py:351-362 re-raises); nothing catches it
RouterRejectFail(p, reply_to_id, text) ==
    /\ rh[p].pc = "idle"
    /\ \A q \in RouterSlots : q < p => rh[q].pc # "idle"
    /\ HubReplyPath(text, reply_to_id) = "reject"
    /\ pending_drafts' = MapDel(pending_drafts, reply_to_id)
    /\ rh' = [rh EXCEPT ![p] =
                 [RouterIdle EXCEPT !.pc = "raised", !.reply_to = reply_to_id,
                                    !.text = text, !.path = "reject",
                                    !.had_draft = TRUE,
                                    !.draft = pending_drafts[reply_to_id]]]
    /\ UNCHANGED <<message_mapping, agg_muted, hub, lh, dt>>
    /\ UNCHANGED <<ai_enabled, ai_stats, learned_replies, outbox, mark_clock, mark_calls>>
    /\ UNCHANGED botVars

\* client.send_message raises and, in the except branch, event.reply with the
\* error notice raises as well (router.py:191-196)
RouterNoticeFail(p) ==
    /\ rh[p].pc = "sleeping"
    /\ rh' = [rh EXCEPT ![p].pc = "raised", ![p].sent = "failed"]
    /\ UNCHANGED ingestVars
    /\ UNCHANGED <<ai_enabled, ai_stats, learned_replies, outbox, mark_clock, mark_calls>>
    /\ UNCHANGED botVars

\* AggSaveFail with the draft task started before the save
AggSaveFail_drafts(p) ==
    /\ lh[p].pc = "sending"
    /\ ~lh[p].ev.has_media
    /\ hub' = Append(hub, [kind |-> "card", reply_to |-> 0])
    /\ dt' = IF DraftEligible(lh[p].ev)
             THEN MapSet(dt, Len(hub) + 1, [pc |-> "start", result |-> "none"])
             ELSE dt
    /\ lh' = [lh EXCEPT ![p].pc = "done", ![p].hub = Len(hub) + 1,
                        ![p].outcome = "save_failed"]
    /\ UNCHANGED <<message_mapping, agg_muted, pending_drafts>>
    /\ UNCHANGED <<botVars, routerVars>>

\* the hub card is posted and save_message raises: the handler's except
\* (aggregator.py:221-222) logs it
AggSaveFail(p) ==
    /\ lh[p].pc = "sending"
    /\ ~lh[p].ev.has_media
    /\ hub' = Append(hub, [kind |-> "card", reply_to |-> 0])
    /\ lh' = [lh EXCEPT ![p].pc = "done", ![p].hub = Len(hub) + 1,
                        ![p].outcome = "save_failed"]
    /\ UNCHANGED <<message_mapping, agg_muted, pending_drafts, dt>>
    /\ UNCHANGED <<botVars, routerVars>>

FaultNext ==
    \/ Next
    \/ \E p \in RouterSlots, h \in HubTargets, text \in ReplyTexts :
            RouterLookupFail(p, h, text)
    \/ \E p \in RouterSlots, h \in HubTargets, text \in ReplyTexts :
            RouterRejectFail(p, h, text)
    \/ \E p \in RouterSlots : RouterNoticeFail(p)
    \/ \E p \in ListenerSlots : AggSaveFail(p)

SpecFaults == Init /\ [][FaultNext]_vars

(***************************************************************************)
(* router.py:131-196: a step after client.send_message raises              *)
(***************************************************************************)
\* the message a handler's client.send_message delivered
Outbound(p) ==
    [client |-> rh[p].client,
     chat |-> message_mapping[rh[p].row].original_chat_id,
     reply_to |-> message_mapping[rh[p].row].original_message_id,
     text |-> rh[p].send_text,
     hub |-> rh[p].reply_to,
     by |-> p]

\* the message is delivered and db.mark_replied raises (router.py:142): the
\* except branch sends the error notice
RouterMarkFail(p) ==
    /\ rh[p].pc = "sleeping"
    /\ outbox' = Append(outbox, Outbound(p))
    /\ rh' = [rh EXCEPT ![p].pc = "done", ![p].sent = "ok",
                        ![p].notice = "error", ![p].raised = "mark_replied"]
    /\ UNCHANGED ingestVars
    /\ UNCHANGED <<ai_enabled, ai_stats, learned_replies, mark_clock, mark_calls>>
    /\ UNCHANGED botVars

\* delivered and marked; handle_action pops the draft and kb.log_ai_action
\* raises (assistant.py:197-205), on "!ok" (router.py:145-152) or on a manual
\* reply over a pending draft (router.py:155-166)
RouterAnalyticsFail(p) ==
    /\ rh[p].pc = "sleeping"
    /\ \/ rh[p].path = "accept"
       \/ ai_enabled /\ rh[p].reply_to \in DOMAIN pending_drafts
    /\ outbox' = Append(outbox, Outbound(p))
    /\ message_mapping' = mark_replied(message_mapping, rh[p].reply_to, mark_clock + 1)
    /\ mark_clock' = mark_clock + 1
    /\ mark_calls' = Append(mark_calls, MarkCall(message_mapping, rh[p].reply_to))
    /\ pending_drafts' = MapDel(pending_drafts, rh[p].reply_to)
    /\ rh' = [rh EXCEPT ![p].pc = "done", ![p].sent = "ok",
                        ![p].marked_at = mark_clock + 1,
                        ![p].notice = "error", ![p].raised = "log_ai_action"]
    /\ UNCHANGED <<agg_muted, hub, lh, dt>>
    /\ UNCHANGED <<ai_enabled, ai_stats, learned_replies>>
    /\ UNCHANGED botVars

\* RouterLearnFail with the reply dispatched once more
RouterLearnFail_resends(p) ==
    /\ rh[p].pc = "sleeping"
    /\ rh[p].path # "accept"
    /\ ai_enabled
    /\ rh[p].reply_to \notin DOMAIN pending_drafts
    /\ outbox' = Append(Append(outbox, Outbound(p)), Outbound(p))
    /\ message_mapping' = mark_replied(message_mapping, rh[p].reply_to, mark_clock + 1)
    /\ mark_clock' = mark_clock + 1
    /\ mark_calls' = Append(mark_calls, MarkCall(message_mapping, rh[p].reply_to))
    /\ rh' = [rh EXCEPT ![p].pc = "done", ![p].sent = "ok",
                        ![p].marked_at = mark_clock + 1,
                        ![p].notice = "error", ![p].raised = "save_learned_reply"]
    /\ UNCHANGED <<agg_muted, hub, pending_drafts, lh, dt>>
    /\ UNCHANGED <<ai_enabled, ai_stats, learned_replies>>
    /\ UNCHANGED botVars

\* a manual reply without a pending draft: delivered and marked, then
\* kb.save_learned_reply raises (router.py:168-176); the except branch sends
\* the error notice
RouterLearnFail(p) ==
    /\ rh[p].pc = "sleeping"
    /\ rh[p].path # "accept"
    /\ ai_enabled
    /\ rh[p].reply_to \notin DOMAIN pending_drafts
    /\ outbox' = Append(outbox, Outbound(p))
    /\ message_mapping' = mark_replied(message_mapping, rh[p].reply_to, mark_clock + 1)
    /\ mark_clock' = mark_clock + 1
    /\ mark_calls' = Append(mark_calls, MarkCall(message_mapping, rh[p].reply_to))
    /\ rh' = [rh EXCEPT ![p].pc = "done", ![p].sent = "ok",
                        ![p].marked_at = mark_clock + 1,
                        ![p].notice = "error", ![p].raised = "save_learned_reply"]
    /\ UNCHANGED <<agg_muted, hub, pending_drafts, lh, dt>>
    /\ UNCHANGED <<ai_enabled, ai_stats, learned_replies>>
    /\ UNCHANGED botVars

SinkFaultNext ==
    \/ Next
    \/ \E p \in RouterSlots : RouterMarkFail(p)
    \/ \E p \in RouterSlots : RouterAnalyticsFail(p)
    \/ \E p \in RouterSlots : RouterLearnFail(p)

SpecSinkFaults == Init /\ [][SinkFaultNext]_vars

(***************************************************************************)
(* Account lineage: properties                                             *)
(***************************************************************************)
Rows == 1..Len(message_mapping)

RowsOf(h) == {i \in Rows : message_mapping[i].hub_message_id = h}

Replied(h) == RowsOf(h) # {} /\ \A i \in RowsOf(h) : message_mapping[i].replied

\* what a router invocation left behind
SentBy(p) == {k \in 1..Len(outbox) : outbox[k].by = p}
LoggedBy(p) == {k \in 1..Len(ai_stats) : ai_stats[k].by = p}
LearnedBy(p) == {k \in 1..Len(learned_replies) : learned_replies[k].by = p}

\* C3: in every reachable state an (original_chat_id, original_message_id)
\* pair occurs in at most one message_mapping row, also when two account
\* listeners handle the same origin message concurrently.
C3_DedupInvariant ==
    \A i, j \in Rows :
        /\ message_mapping[i].original_chat_id = message_mapping[j].original_chat_id
        /\ message_mapping[i].original_message_id = message_mapping[j].original_message_id
        => i = j

\* C4: mark_replied(h) runs only after the outbound send for h returned
\* successfully: a replied row carries the replied_at written by an invocation
\* for its hub message whose send succeeded and was delivered before; an
\* invocation whose send failed marks nothing; replied_at is null exactly
\* while replied is false.
C4_ReplyThenMark ==
    /\ \A i \in Rows :
          /\ message_mapping[i].replied =>
                \E p \in RouterSlots :
                    /\ rh[p].sent = "ok"
                    /\ rh[p].reply_to = message_mapping[i].hub_message_id
                    /\ rh[p].marked_at = message_mapping[i].replied_at
                    /\ \E k \in SentBy(p) :
                          outbox[k].hub = message_mapping[i].hub_message_id
          /\ message_mapping[i].replied <=> message_mapping[i].replied_at # 0
    /\ \A p \in RouterSlots :
          rh[p].sent # "ok" => rh[p].marked_at = 0 /\ SentBy(p) = {}

\* a send failed for a mapped hub message, which is still unreplied
C4_Witness ==
    \E p \in RouterSlots :
        /\ rh[p].sent = "failed"
        /\ RowsOf(rh[p].reply_to) # {}
        /\ \A i \in RowsOf(rh[p].reply_to) :
              ~message_mapping[i].replied /\ message_mapping[i].replied_at = 0

\* C5: every outbound message of the router for a reply to hub message h goes
\* to the original chat of the mapping of h, as a reply to its original
\* message, through the client of the listener named by its source_account.
C5_RoutingCorrect ==
    \A k \in 1..Len(outbox) :
        \E i \in RowsOf(outbox[k].hub) :
            /\ outbox[k].chat = message_mapping[i].original_chat_id
            /\ outbox[k].reply_to = message_mapping[i].original_message_id
            /\ outbox[k].client = message_mapping[i].source_account
            /\ \E n \in 1..Len(listeners) : listeners[n] = outbox[k].client

\* a reply went out through the client of the second listener
C5_Witness ==
    \E k \in 1..Len(outbox) :
        outbox[k].client = "personal" /\ outbox[k].chat = PrivateChat

C7_Accept ==
    \A p \in RouterSlots :
        (rh[p].path = "accept" /\ rh[p].had_draft /\ rh[p].sent = "ok") =>
            /\ SentBy(p) # {}
            /\ \A k \in SentBy(p) : outbox[k].text = rh[p].draft
            /\ Replied(rh[p].reply_to)
            /\ rh[p].reply_to \notin DOMAIN pending_drafts
            /\ \E k \in LoggedBy(p) :
                  /\ ai_stats[k].action = "accepted"
                  /\ ai_stats[k].final_text = rh[p].draft
                  /\ ai_stats[k].draft_text = ai_stats[k].final_text

\* C8: a reject shorthand for hub message h with a pending draft removes the
\* draft, logs one rejected record and notifies the moderator; it dispatches
\* nothing, and h is replied only if another reply to h was delivered.
C8_Reject ==
    \A p \in RouterSlots :
        rh[p].path = "reject" =>
            /\ rh[p].pc = "done"
            /\ rh[p].notice = "rejected"
            /\ rh[p].reply_to \notin DOMAIN pending_drafts
            /\ Cardinality(LoggedBy(p)) = 1
            /\ \A k \in LoggedBy(p) :
                  /\ ai_stats[k].action = "rejected"
                  /\ ai_stats[k].hub_message_id = rh[p].reply_to
            /\ SentBy(p) = {}
            /\ LearnedBy(p) = {}
            /\ (\A k \in 1..Len(outbox) : outbox[k].hub # rh[p].reply_to)
                  => \A i \in RowsOf(rh[p].reply_to) : ~message_mapping[i].replied

\* a draft was rejected and its hub message is mapped and unreplied
C8_Witness ==
    \E p \in RouterSlots :
        /\ rh[p].path = "reject"
        /\ rh[p].had_draft
        /\ RowsOf(rh[p].reply_to) # {}
        /\ ~Replied(rh[p].reply_to)

\* C9: a free-text reply t to hub message h with a pending draft whose
\* dispatch succeeds sends t and not the draft, marks h replied, removes the
\* draft and records the transition with action = edited.
C9_Edit ==
    \A p \in RouterSlots :
        (rh[p].path = "manual" /\ rh[p].had_draft /\ rh[p].sent = "ok") =>
            /\ SentBy(p) # {}
            /\ \A k \in SentBy(p) :
                  outbox[k].text = rh[p].text /\ outbox[k].text # rh[p].draft
            /\ Replied(rh[p].reply_to)
            /\ rh[p].reply_to \notin DOMAIN pending_drafts
            /\ \E k \in LoggedBy(p) : ai_stats[k].action = "edited"

AiPaths == {"accept", "reject", "reject_late"}

\* a reply is an AI action iff its trimmed, lower-cased text is exactly
\* '!ok' or '!no' and a draft was pending for the hub message
ShorthandIff(p) ==
    rh[p].path \in AiPaths <=>
        (Lower(Strip(rh[p].text)) \in {T_ok, T_no} /\ rh[p].had_draft)

\* a manual reply either met one of the failures (no mapping, no client,
\* failed send) or was delivered verbatim and marked its message replied
ManualDelivered(p) ==
    \/ rh[p].notice \in {"not_found", "no_client"}
    \/ rh[p].sent = "failed"
    \/ /\ rh[p].sent = "ok"
       /\ SentBy(p) # {}
       /\ \A k \in SentBy(p) : outbox[k].text = rh[p].text
       /\ Replied(rh[p].reply_to)

\* C10, as claimed: the AI-action condition, and every other reply is
\* dispatched verbatim as a manual reply and marks the message replied.
C10_AsClaimed ==
    \A p \in RouterSlots :
        rh[p].pc = "done" =>
            /\ ShorthandIff(p)
            /\ rh[p].path \notin AiPaths => ManualDelivered(p)

\* C10, amended: the AI-action condition holds; every other reply with a
\* non-empty text is dispatched verbatim as a manual reply and marks the
\* message replied; a reply without text is ignored.
C10_Shorthand ==
    \A p \in RouterSlots :
        rh[p].pc = "done" =>
            /\ ShorthandIff(p)
            /\ (rh[p].path \notin AiPaths /\ rh[p].text # <<>>) =>
                  rh[p].path = "manual" /\ ManualDelivered(p)
            /\ rh[p].text = <<>> =>
                  /\ rh[p].path = "ignored" /\ rh[p].notice = "none"
                  /\ SentBy(p) = {} /\ LoggedBy(p) = {} /\ LearnedBy(p) = {}

\* a shorthand token in another case and with a blank, replied to a hub
\* message without a pending draft, went out verbatim; and one was taken as
\* an AI action
C10_Witness ==
    /\ \E p \in RouterSlots :
          /\ rh[p].text = T_OK_sp /\ ~rh[p].had_draft
          /\ rh[p].sent = "ok"
    /\ \E p \in RouterSlots :
          rh[p].text = T_OK_sp /\ rh[p].path = "accept"

C12_MutedStayHandled ==
    /\ \A p \in BotSlots :
          bh[p].muted =>
              /\ BotKey(bh[p].ev) \in processed_messages
              /\ \A q \in BotSlots :
                    (p \in bh[q].after /\ bh[q].ev = bh[p].ev) => bh[q].hub = 0
    /\ \A p \in ListenerSlots :
          lh[p].muted =>
              \A q \in ListenerSlots :
                  (q > p /\ lh[q].ev = lh[p].ev) => lh[q].hub = 0

\* C13: a message the filter drops (noise phrase, too short for a group) gets
\* no hub card and no mapping, its key is recorded in the dedup ledger all the
\* same, and a redelivery of it posts no hub card.
C13_FilteredStayHandled ==
    /\ \A p \in BotSlots :
          bh[p].outcome = "filtered" =>
              /\ bh[p].hub = 0
              /\ BotCards(BotKey(bh[p].ev)) = {}
              /\ BotRows(BotKey(bh[p].ev)) = {}
              /\ BotKey(bh[p].ev) \in processed_messages
              /\ \A q \in BotSlots :
                    (p \in bh[q].after /\ bh[q].ev = bh[p].ev) => bh[q].hub = 0
    /\ \A p \in ListenerSlots :
          lh[p].outcome = "filtered" =>
              /\ lh[p].hub = 0
              /\ ~agg_is_duplicate(message_mapping, lh[p].ev.chat,
                                   lh[p].ev.message_id)
              /\ \A q \in ListenerSlots :
                    (q > p /\ lh[q].ev = lh[p].ev) => lh[q].hub = 0

\* C14: no two rows of message_mapping share a hub_message_id, and no two
\* rows of hub_messages do: every hub send returns a fresh id and each
\* handler saves one row for the card it posted.
C14_MappingUniqueness ==
    /\ \A i, j \in Rows :
          message_mapping[i].hub_message_id = message_mapping[j].hub_message_id
              => i = j
    /\ \A i, j \in 1..Len(hub_messages) :
          hub_messages[i].hub_message_id = hub_messages[j].hub_message_id
              => i = j
    /\ \A i \in Rows : message_mapping[i].hub_message_id \in HubIds
    /\ \A i \in 1..Len(hub_messages) :
          hub_messages[i].hub_message_id \in 1..Len(bot_hub)

\* both tables hold rows, message_mapping more than one
C14_Witness ==
    /\ Len(message_mapping) >= 2
    /\ Len(hub_messages) >= 1

(***************************************************************************)
(* The mapping store: properties                                           *)
(***************************************************************************)
\* C15: save_message with a record whose hub_message_id is already in the
\* table fails and leaves the table unchanged: a step that adds a row adds
\* it for a hub_message_id no earlier row has.
C15_SaveRejectsDuplicate ==
    [][Len(message_mapping') > Len(message_mapping) =>
          \A i \in 1..Len(message_mapping) :
              message_mapping[i].hub_message_id
                  # message_mapping'[Len(message_mapping')].hub_message_id]_vars

C17_DraftExclusivity ==
    [][\A h \in 1..MaxDraftHubId, t \in DraftTexts :
          RegisterDraft(h, t) =>
              /\ DOMAIN pending_drafts' = DOMAIN pending_drafts \cup {h}
              /\ pending_drafts'[h] = t
              /\ \A k \in DOMAIN pending_drafts \ {h} :
                    pending_drafts'[k] = pending_drafts[k]]_vars

\* a hub message for which a draft was registered twice and is pending
C17_Witness ==
    \E h \in DOMAIN pending_drafts :
        \E i, j \in 1..Len(hub) :
            /\ i < j
            /\ hub[i].kind = "draft" /\ hub[i].reply_to = h
            /\ hub[j].kind = "draft" /\ hub[j].reply_to = h

(***************************************************************************)
(* Failures while forwarding: properties                                   *)
(***************************************************************************)
\* C18: a failing attachment never fails the forward: every handler that
\* posted its hub card and has ended, whatever became of the attachment, has
\* persisted the mapping of that card.
C18_AttachmentFailureKeepsMapping ==
    /\ \A p \in ListenerSlots :
          (lh[p].pc = "done" /\ lh[p].hub # 0) => RowsOf(lh[p].hub) # {}
    /\ \A p \in BotSlots :
          (bh[p].pc = "done" /\ bh[p].hub # 0) =>
              \E i \in 1..Len(hub_messages) :
                  hub_messages[i].hub_message_id = bh[p].hub

\* C19: when sending the hub card fails, the handler ends there: it has
\* posted no card and persisted no mapping for the event (every row of the
\* event belongs to another handler that forwarded it), and where the key of
\* the event is in the dedup ledger a later redelivery posts nothing.
C19_DispatchFailure ==
    /\ \A p \in BotSlots :
          bh[p].outcome = "send_failed" =>
              /\ bh[p].pc = "done"
              /\ bh[p].hub = 0
              /\ BotCards(BotKey(bh[p].ev)) = {}
              /\ BotRows(BotKey(bh[p].ev)) = {}
              /\ BotKey(bh[p].ev) \in processed_messages
              /\ \A q \in BotSlots :
                    (p \in bh[q].after /\ bh[q].ev = bh[p].ev) =>
                        bh[q].pc = "done" /\ bh[q].hub = 0
    /\ \A p \in ListenerSlots :
          lh[p].outcome = "send_failed" =>
              /\ lh[p].pc = "done"
              /\ lh[p].hub = 0
              /\ \A i \in Rows :
                    (/\ message_mapping[i].original_chat_id = lh[p].ev.chat
                     /\ message_mapping[i].original_message_id = lh[p].ev.message_id)
                    => \E q \in ListenerSlots :
                          /\ q # p
                          /\ lh[q].outcome = "saved"
                          /\ lh[q].hub = message_mapping[i].hub_message_id

\* a hub send failed for an event, and the event was delivered again and
\* dropped as a duplicate
C19_Witness ==
    \E p, q \in BotSlots :
        /\ bh[p].outcome = "send_failed"
        /\ p \in bh[q].after
        /\ bh[q].ev = bh[p].ev
        /\ bh[q].outcome = "duplicate"

\* C20: a message written by the listening account itself, or by the owner of
\* the Business connection, is never posted to the hub and never gets a
\* mapping: its handler ends at the gate, and no card and no row exist for it.
C20_SelfAuthoredRejected ==
    /\ \A p \in ListenerSlots :
          lh[p].ev.from_self =>
              /\ lh[p].pc = "done"
              /\ lh[p].hub = 0
              /\ ~agg_is_duplicate(message_mapping, lh[p].ev.chat,
                                   lh[p].ev.message_id)
    /\ \A p \in BotSlots :
          bh[p].ev.from_owner =>
              /\ bh[p].pc = "done"
              /\ bh[p].hub = 0
              /\ BotCards(BotKey(bh[p].ev)) = {}
              /\ BotRows(BotKey(bh[p].ev)) = {}

(***************************************************************************)
(* Hub echo: properties                                                    *)
(***************************************************************************)
\* C21: a message authored by the hub bot or by another bot is never
\* ingested: a listener that receives a hub card ends at its gates, posts
\* nothing and saves no mapping for it, and the group handler of the bot
\* posts no card for a message of a bot.
C21_NoHubEcho ==
    /\ \A p \in ListenerSlots :
          lh[p].ev.chat = HubChat =>
              /\ lh[p].pc = "done"
              /\ lh[p].hub = 0
              /\ ~agg_is_duplicate(message_mapping, HubChat, lh[p].ev.message_id)
    /\ \A p \in BotSlots :
          bh[p].ev.from_bot =>
              /\ bh[p].pc = "done"
              /\ bh[p].hub = 0
              /\ BotCards(BotKey(bh[p].ev)) = {}

(***************************************************************************)
(* Draft resolution: properties                                            *)
(***************************************************************************)
\* the dispatches of a draft of hub message h: what accepting invocations sent
AcceptSends(h) ==
    {k \in 1..Len(outbox) : outbox[k].hub = h /\ rh[outbox[k].by].path = "accept"}

\* the analytics records of hub message h with one of the given actions
StatsOf(h, actions) ==
    {k \in 1..Len(ai_stats) :
        ai_stats[k].hub_message_id = h /\ ai_stats[k].action \in actions}

\* C22: the draft of a hub message is dispatched to the original chat at most
\* once and at most one accepted record is written for it, however the
\* router handlers of repeated accept shorthands interleave.
C22_ExactlyOnceResolution ==
    \A h \in HubIds :
        /\ Cardinality(AcceptSends(h)) <= 1
        /\ Cardinality(StatsOf(h, {"accepted"})) <= 1

Transitions == {"accepted", "edited", "rejected"}

\* the draft state of hub message h
DraftState(h) ==
    IF h \in DOMAIN pending_drafts THEN "pending"
    ELSE IF StatsOf(h, Transitions) # {} THEN "terminal"
    ELSE "none"

\* C23: the draft state of a hub message moves only none -> pending ->
\* terminal: a transition record is written only for a pending draft, and
\* once the state is terminal the hub message has no pending draft again and
\* no further transition record is written for it.
C23_DraftLifecycle ==
    [][\A h \in HubIds :
          /\ DraftState(h) = "none" => DraftState(h)' \in {"none", "pending"}
          /\ DraftState(h) = "terminal" =>
                /\ DraftState(h)' = "terminal"
                /\ StatsOf(h, Transitions)' = StatsOf(h, Transitions)]_vars

\* the record a router invocation wrote is the one record of its transition,
\* with the draft that was pending and the text that was sent
RecordOf(p, action, draft_text, final_text) ==
    /\ Cardinality(LoggedBy(p)) = 1
    /\ \A k \in LoggedBy(p) :
          /\ ai_stats[k].action = action
          /\ ai_stats[k].hub_message_id = rh[p].reply_to
          /\ ai_stats[k].draft_text = draft_text
          /\ ai_stats[k].final_text = final_text

\* C24: every draft transition appends exactly one analytics record, with
\* draft_text the draft that was pending for the hub message and final_text
\* the text that was sent (the draft itself when accepted, nothing when
\* rejected); records once written are never changed or removed.
C24_AnalyticsRecord ==
    /\ [](\A p \in RouterSlots :
            /\ rh[p].path = "reject" =>
                  RecordOf(p, "rejected", rh[p].draft, <<>>)
            /\ (rh[p].path = "accept" /\ rh[p].sent = "ok") =>
                  RecordOf(p, "accepted", rh[p].draft, rh[p].draft)
            /\ (rh[p].path = "manual" /\ rh[p].sent = "ok" /\ LoggedBy(p) # {}) =>
                  RecordOf(p, "edited", T_draft, rh[p].text))
    /\ [][/\ Len(ai_stats') >= Len(ai_stats)
          /\ \A k \in 1..Len(ai_stats) : ai_stats'[k] = ai_stats[k]]_vars

\* the draft posts in the hub that reply to hub message h
DraftPosts(h) ==
    {i \in HubIds : hub[i].kind = "draft" /\ hub[i].reply_to = h}

\* C25: a pending draft exists only for a draft that was posted: whenever
\* hub message h has a pending draft, the hub holds the draft post replying
\* to h; a failed post leaves no pending draft.
C25_PendingImpliesPosted ==
    \A h \in DOMAIN pending_drafts : DraftPosts(h) # {}

(***************************************************************************)
(* Fault containment: properties                                           *)
(***************************************************************************)
\* C26: a failure while handling one inbound event or one moderator reply
\* never escapes the handler: no listener invocation and no router
\* invocation ends by an exception, also when the store lookup, the
\* analytics write of a rejection or the error notice fails.
C26_FaultContainment ==
    /\ \A p \in ListenerSlots : lh[p].pc \in {"idle", "sending", "media", "done"}
    /\ \A p \in RouterSlots : rh[p].pc \in {"idle", "sleeping", "done"}

(***************************************************************************)
(* Draft tasks: properties                                                 *)
(***************************************************************************)
\* C27: the handler that started a draft task has saved the mapping and
\* returned, whatever the task is doing; the task registers and posts its
\* draft only after it has generated one.
C27_FireAndForget ==
    \A h \in DOMAIN dt :
        /\ \E p \in ListenerSlots :
              lh[p].hub = h /\ lh[p].pc = "done" /\ lh[p].outcome = "saved"
        /\ RowsOf(h) # {}
        /\ dt[h].pc \in {"start", "generating"} =>
              h \notin DOMAIN pending_drafts /\ DraftPosts(h) = {}

\* a draft is still being generated and the next inbound event has been
\* forwarded meanwhile
C27_Witness ==
    \E h \in DOMAIN dt :
        /\ dt[h].pc = "generating"
        /\ \E q \in ListenerSlots :
              lh[q].hub > h /\ lh[q].pc = "done" /\ lh[q].outcome = "saved"

\* C28: a draft task whose generation gave no draft (none, timeout, error,
\* no response needed) has ended without a trace: no pending draft for its
\* hub message, no draft post in the hub, and the mapping of the forwarded
\* message as it was saved.
C28_SilentSkip ==
    \A h \in DOMAIN dt :
        (dt[h].pc = "done" /\ dt[h].result \in {"none", "no_response"}) =>
            /\ h \notin DOMAIN pending_drafts
            /\ DraftPosts(h) = {}
            /\ \A i \in HubIds : hub[i].reply_to # h
            /\ \E p \in ListenerSlots :
                  /\ lh[p].hub = h
                  /\ \A i \in RowsOf(h) :
                        /\ message_mapping[i].original_chat_id = lh[p].ev.chat
                        /\ message_mapping[i].original_message_id = lh[p].ev.message_id
                        /\ ~message_mapping[i].replied
            /\ Cardinality(RowsOf(h)) = 1

\* a task whose generation decided that no response is needed, and one whose
\* generation failed
C28_Witness ==
    /\ \E h \in DOMAIN dt : dt[h].pc = "done" /\ dt[h].result = "no_response"
    /\ \E h \in DOMAIN dt : dt[h].pc = "done" /\ dt[h].result = "none"

(***************************************************************************)
(* Ordering: properties                                                    *)
(***************************************************************************)
\* C29: of two events that one source listener received in that order and
\* that were both forwarded, the hub card of the first was posted before the
\* hub card of the second (its hub message id is smaller).
C29_InOrder ==
    /\ \A p, q \in ListenerSlots :
          (/\ p < q
           /\ lh[p].ev.account = lh[q].ev.account
           /\ lh[p].hub # 0 /\ lh[q].hub # 0) => lh[p].hub < lh[q].hub
    /\ \A p, q \in BotSlots :
          (/\ p < q
           /\ bh[p].ev.kind = bh[q].ev.kind
           /\ bh[p].hub # 0 /\ bh[q].hub # 0) => bh[p].hub < bh[q].hub

(***************************************************************************)
(* GetCourse webhook: properties                                           *)
(***************************************************************************)
\* C30: a GetCourse event follows the ingestion contract of the other
\* sources: delivered twice it has one hub card and one hub_messages row,
\* and its row carries an origin identity that is in the dedup ledger.
C30_LmsContract ==
    /\ \A ev \in GetCourseEvents :
          /\ Cardinality({p \in BotSlots : bh[p].ev = ev /\ bh[p].hub # 0}) <= 1
          /\ Cardinality({i \in 1..Len(bot_hub) :
                            bot_hub[i].key = <<"getcourse", ev.text>>}) <= 1
    /\ \A i \in 1..Len(hub_messages) :
          hub_messages[i].source = "getcourse" =>
              /\ hub_messages[i].source_message_id # 0
              /\ <<"getcourse", hub_messages[i].source_chat_id,
                   hub_messages[i].source_message_id>> \in processed_messages

(***************************************************************************)
(* Statistics: properties                                                  *)
(***************************************************************************)
\* the column a forwarded update is counted in
StatSource(ev) == IF ev.kind = "getcourse" THEN "getcourse" ELSE BotSource(ev)

\* the handler invocations that saved their card and counted it
Counted(sources) ==
    {p \in BotSlots : bh[p].outcome = "saved" /\ StatSource(bh[p].ev) \in sources}

StatColumns == {"business_dm", "group_students", "group_curators", "getcourse"}

\* C31: after any interleaving of the handlers, the day's total_messages is
\* the number of increment_stat calls made and every per-source counter is
\* the number of calls for that source; the day's row exists iff a call was
\* made.
C31_AtomicIncrements ==
    IF Counted(StatColumns) = {}
    THEN DOMAIN daily_stats = {}
    ELSE /\ DOMAIN daily_stats = {Today}
         /\ daily_stats[Today].total_messages = Cardinality(Counted(StatColumns))
         /\ \A c \in StatColumns :
               daily_stats[Today][c] = Cardinality(Counted({c}))

\* two handlers that were in flight together counted into one column
C31_Witness ==
    /\ Today \in DOMAIN daily_stats
    /\ daily_stats[Today].total_messages = 2
    /\ \E c \in StatColumns : daily_stats[Today][c] = 2
    /\ \A p \in BotSlots : bh[p].after = {}

(***************************************************************************)
(* Marking: properties                                                     *)
(***************************************************************************)
\* a row with its replied flag and time blanked: every other field
OtherFields(row) == [row EXCEPT !.replied = FALSE, !.replied_at = 0]

\* a step that called Database.mark_replied
MarkStep == Len(mark_calls') = Len(mark_calls) + 1

\* what the call of a mark step did to the table
MarkEffect ==
    LET h == mark_calls'[Len(mark_calls')].hub_message_id
    IN /\ Len(message_mapping') = Len(message_mapping)
       /\ \A i \in 1..Len(message_mapping) :
             IF message_mapping[i].hub_message_id # h
             THEN message_mapping'[i] = message_mapping[i]
             ELSE /\ message_mapping'[i].replied
                  /\ message_mapping'[i].replied_at = mark_clock'
                  /\ OtherFields(message_mapping'[i]) = OtherFields(message_mapping[i])
       /\ (\A i \in 1..Len(message_mapping) : message_mapping[i].hub_message_id # h)
             => message_mapping' = message_mapping

\* marking twice gives the table of marking once at the later time
MarkTwiceIsOnce ==
    \A h \in 1..(MaxStoreHubId + 1) : \A t1, t2 \in 1..MaxMarkCalls :
        mark_replied(mark_replied(message_mapping, h, t1), h, t2)
            = mark_replied(message_mapping, h, t2)

\* C32: mark_replied is idempotent: a second call for a hub id leaves the
\* store as one call does except for replied_at, which is the time of the
\* last call; replied stays true; no other row and no other field changes; a
\* call for an unknown hub id completes and changes nothing.
C32_MarkIdempotent == [](MarkTwiceIsOnce) /\ [][MarkStep => MarkEffect]_vars

\* a hub id marked twice while its row was there, a call for an id without a
\* row, and a row of another id still unreplied
C32_Witness ==
    /\ \E i, j \in 1..Len(mark_calls) :
          /\ i < j
          /\ mark_calls[i].hub_message_id = mark_calls[j].hub_message_id
          /\ mark_calls[i].rowcount > 0
          /\ \E r \in 1..Len(message_mapping) :
                /\ message_mapping[r].hub_message_id = mark_calls[j].hub_message_id
                /\ message_mapping[r].replied
                /\ message_mapping[r].replied_at = j
    /\ \E k \in 1..Len(mark_calls) : mark_calls[k].rowcount = 0
    /\ \E r \in 1..Len(message_mapping) : ~message_mapping[r].replied

(***************************************************************************)
(* Classifier: properties                                                  *)
(***************************************************************************)
Returned == {p \in DOMAIN lh : lh[p].pc = "returned"}

IsNoise(text) == Lower(Strip(text)) \in noise_set

HasUrgent(text) == \E kw \in urgent_keywords : Contains(Lower(text), Lower(kw))

TooShort(text, chat_type) ==
    /\ chat_type \in {"group", "supergroup"}
    /\ Len(Strip(text)) < min_group_message_length

NoiseWins ==
    \A p \in Returned :
        IsNoise(lh[p].text)
            => /\ ~lh[p].filter_result.should_forward
               /\ lh[p].filter_result.priority = "info"

Deterministic ==
    \A p, q \in Returned :
        (lh[p].text = lh[q].text /\ lh[p].chat_type = lh[q].chat_type)
            => lh[p].filter_result = lh[q].filter_result

\* C33 as stated: noise wins over everything, and otherwise every text with
\* an urgent keyword gets the priority urgent.
C33_AsClaimed ==
    /\ NoiseWins
    /\ \A p \in Returned :
          (~IsNoise(lh[p].text) /\ HasUrgent(lh[p].text))
              => lh[p].filter_result.priority = "urgent"

\* C33: a text that equals a noise phrase after trimming and lower-casing is
\* not forwarded and has the priority info in every chat kind; otherwise a
\* text too short for its group is not forwarded and has the priority info;
\* otherwise a text with an urgent keyword has the priority urgent, with a
\* question marker or a gratitude phrase in it too; equal inputs give equal
\* results, and a call changes nothing but its own result.
C33_TieBreak ==
    /\ [](/\ NoiseWins
          /\ Deterministic
          /\ \A p \in Returned :
                LET text == lh[p].text
                    chat_type == lh[p].chat_type
                    res == lh[p].filter_result
                IN /\ (~IsNoise(text) /\ TooShort(text, chat_type))
                          => (~res.should_forward /\ res.priority = "info")
                   /\ (~IsNoise(text) /\ ~TooShort(text, chat_type) /\ HasUrgent(text))
                          => res.priority = "urgent")
    /\ [][UNCHANGED <<botVars, routerVars, message_mapping, agg_muted, hub,
                      pending_drafts, dt>>]_vars

\* a noise phrase classified in a private chat, and a group text with an urgent
\* keyword, a question mark and a gratitude word classified as urgent
C33_Witness ==
    \E p, q \in Returned :
        /\ IsNoise(lh[p].text) /\ lh[p].text # Lower(Strip(lh[p].text))
        /\ lh[p].chat_type = "dm"
        /\ ~lh[p].filter_result.should_forward
        /\ lh[q].text = T_help_all /\ lh[q].chat_type = "group"
        /\ lh[q].filter_result.priority = "urgent"
        /\ lh[q].filter_result.tags = {"urgent", "question", "gratitude"}

(***************************************************************************)
(* Failures after the send: properties                                     *)
(***************************************************************************)
\* C34: when the learning write fails after a manual reply without a pending
\* draft was dispatched and marked, the handler ends, every mapping row of
\* the hub message is and stays replied, and the handler's reply is in the
\* outbox once.
C34_LearningBestEffort ==
    \A p \in RouterSlots :
        rh[p].raised = "save_learned_reply"
            => /\ rh[p].pc = "done"
               /\ RowsOf(rh[p].reply_to) # {}
               /\ \A i \in RowsOf(rh[p].reply_to) : message_mapping[i].replied
               /\ Cardinality(SentBy(p)) = 1
               /\ learned_replies = <<>> \/ \A i \in 1..Len(learned_replies) :
                                               learned_replies[i].by # p

\* a manual reply delivered and marked whose learning write failed, with the
\* other handler finished after it
C34_Witness ==
    \E p, q \in RouterSlots :
        /\ p # q
        /\ rh[p].raised = "save_learned_reply"
        /\ rh[p].path = "manual"
        /\ rh[p].marked_at > 0
        /\ rh[q].pc = "done" /\ rh[q].marked_at > rh[p].marked_at

\* C38: a handler that sent the send-error notice delivered nothing and
\* marked nothing; a handler that sent the success confirmation delivered its
\* message and marked the hub message replied.
C38_ErrorImpliesNoDelivery ==
    \A p \in RouterSlots :
        /\ rh[p].notice = "error"
              => /\ SentBy(p) = {}
                 /\ rh[p].marked_at = 0
        /\ rh[p].notice \in {"sent", "sent_ai"}
              => /\ SentBy(p) # {}
                 /\ rh[p].marked_at > 0

(***************************************************************************)
(* Accepting a draft again: properties                                     *)
(***************************************************************************)
\* the step in which an accept of handler p ends without a delivery: the
\* dispatch raised, or the account has no client
AcceptFails(p) ==
    /\ rh[p].pc # "done" /\ rh'[p].pc = "done"
    /\ rh'[p].path = "accept"
    /\ rh'[p].notice \in {"error", "no_client"}
    /\ rh'[p].sent # "ok"

\* the step in which handler p takes up an accept
AcceptStarts(p) ==
    /\ rh[p].pc = "idle" /\ rh'[p].pc = "sleeping"
    /\ rh'[p].path = "accept"

\* C39: an accept whose dispatch fails, or whose account has no client, leaves
\* the pending drafts with their texts, the mapping rows, the analytics
\* records and the outbox as they were; an accept taken up for a hub message
\* sends the text pending for it at that moment.
C39_AcceptRetry ==
    /\ [][\A p \in RouterSlots :
             AcceptFails(p)
                 => UNCHANGED <<pending_drafts, message_mapping, ai_stats,
                                learned_replies, outbox>>]_vars
    /\ [][\A p \in RouterSlots :
             AcceptStarts(p)
                 => /\ rh'[p].reply_to \in DOMAIN pending_drafts
                    /\ rh'[p].send_text = pending_drafts[rh'[p].reply_to]]_vars

\* an accept failed in its dispatch, and a later accept of the same hub
\* message delivered the same draft, marked the message and logged it once
C39_Witness ==
    \E p, q \in RouterSlots :
        /\ p < q
        /\ rh[p].path = "accept" /\ rh[p].sent = "failed" /\ rh[p].notice = "error"
        /\ rh[q].path = "accept" /\ rh[q].sent = "ok"
        /\ rh[q].reply_to = rh[p].reply_to
        /\ rh[q].send_text = rh[p].send_text
        /\ \E k \in SentBy(q) : outbox[k].text = rh[p].draft
        /\ SentBy(p) = {} /\ LoggedBy(p) = {}
        /\ Cardinality(LoggedBy(q)) = 1
        /\ Replied(rh[q].reply_to)

(***************************************************************************)
(* Drafts and their hub messages: properties                               *)
(***************************************************************************)
\* C35: every pending draft is filed under a hub message that has a mapping
\* row, and no accept or reject of a pending draft ends with the notice that
\* the original message was not found.
C35_DraftHasMapping ==
    /\ \A h \in DOMAIN pending_drafts : RowsOf(h) # {}
    /\ \A p \in RouterSlots :
          (rh[p].path \in {"accept", "reject"} /\ rh[p].had_draft)
              => rh[p].notice # "not_found"

\* a draft is pending for a mapped hub message and an accept of it has found
\* the row
C35_Witness ==
    \E p \in RouterSlots :
        /\ rh[p].path = "accept" /\ rh[p].pc = "sleeping"
        /\ rh[p].reply_to \in DOMAIN pending_drafts
        /\ rh[p].row \in RowsOf(rh[p].reply_to)

\* C36: when a moderator's free-text reply to hub message h is dispatched and
\* h is marked replied, no draft remains pending for h, with the assistant
\* switched on or off.
C36_NoDraftLeftBehind ==
    [][\A p \in RouterSlots :
          (/\ rh[p].pc = "sleeping" /\ rh[p].path = "manual"
           /\ rh'[p].sent = "ok" /\ rh'[p].marked_at > 0)
              => rh[p].reply_to \notin DOMAIN pending_drafts']_vars

\* the second answer: an accept delivered the draft of a hub message after a
\* manual reply to it had been delivered and marked
SecondAnswer ==
    \E p, q \in RouterSlots :
        /\ rh[p].path = "manual" /\ rh[p].sent = "ok" /\ ~rh[p].had_draft
        /\ rh[q].path = "accept" /\ rh[q].sent = "ok"
        /\ rh[q].reply_to = rh[p].reply_to
        /\ rh[p].marked_at > 0 /\ rh[q].marked_at > rh[p].marked_at
        /\ rh[p].reply_to \in DOMAIN dt

\* C37: a draft is never registered for a hub message that is already
\* replied, and no accept delivers the draft of a hub message as a second
\* answer after a manual reply to it.
C37_NoDraftForAnswered ==
    /\ [][\A h \in DOMAIN pending_drafts' \ DOMAIN pending_drafts : ~Replied(h)]_vars
    /\ [](~SecondAnswer)

====
